---- MODULE Spec2Model ----
(***************************************************************************)
(* A model of awssearch: the resource records of awssearch/instances.py    *)
(* (AWSInstance, Ec2Instance, ElbInstance: item lookup and match) and the  *)
(* filter of awssearch/search.py (SearchAWSResources.filter).              *)
(*                                                                         *)
(* Python strings are sequences of one-character strings, so that lower(), *)
(* the substring test, the iteration over a string and the comparison of   *)
(* two strings are computed.  A Python value is a record [t, v]: t is the  *)
(* type ("str", "list", "dict", "int", "bool", "none") and v the payload.  *)
(* A call's outcome is a record [exc, val]: exc is "none" or the name of   *)
(* the exception that left the call.                                       *)
(***************************************************************************)
EXTENDS Integers, Sequences, FiniteSets, TLC

(***************************************************************************)
(* Bounds                                                                  *)
(***************************************************************************)
\* largest number of records fetched at construction
MaxRecs == 2
\* largest number of records the provider returns for one (account, region)
MaxFetch == 2

(***************************************************************************)
(* String data                                                             *)
(***************************************************************************)
s_Name == <<"N", "a", "m", "e">>
s_web1 == <<"w", "e", "b", "-", "1">>
s_web2 == <<"w", "e", "b", "-", "2">>
s_WebServer01 == <<"W", "e", "b", "-", "S", "e", "r", "v", "e", "r", "-", "0", "1">>
s_web == <<"w", "e", "b">>
s_WEB == <<"W", "E", "B">>
s_zzz == <<"z", "z", "z">>
s_running == <<"r", "u", "n", "n", "i", "n", "g">>
s_stopped == <<"s", "t", "o", "p", "p", "e", "d">>
s_run == <<"r", "u", "n">>
s_Running == <<"R", "u", "n", "n", "i", "n", "g">>
s_env == <<"e", "n", "v">>
s_Env == <<"E", "n", "v">>
s_prod == <<"p", "r", "o", "d">>
s_team == <<"t", "e", "a", "m">>
s_core == <<"c", "o", "r", "e">>
s_envprod_teamcore == <<"e", "n", "v", "=", "p", "r", "o", "d", ",", "t", "e", "a", "m", "=", "c", "o", "r", "e">>
s_envprod == <<"e", "n", "v", "=", "p", "r", "o", "d">>
s_teamcore == <<"t", "e", "a", "m", "=", "c", "o", "r", "e">>
s_ev == <<"e", "v">>
s_ip1 == <<"1", "0", ".", "0", ".", "0", ".", "1">>
s_ip2 == <<"1", "0", ".", "0", ".", "0", ".", "2">>
s_pub1 == <<"5", "4", ".", "1", ".", "1", ".", "1">>
s_ten == <<"1", "0", ".">>
s_i1 == <<"i", "-", "1">>
s_i2 == <<"i", "-", "2">>
s_i3 == <<"i", "-", "3">>
s_idash == <<"I", "-">>
s_sg1 == <<"s", "g", "-", "1">>
s_db == <<"d", "b">>
s_sg2 == <<"s", "g", "-", "2">>
s_sg == <<"s", "g">>
s_t2 == <<"t", "2">>
s_t2micro == <<"t", "2", ".", "m", "i", "c", "r", "o">>
s_zone == <<"u", "s", "-", "e", "a", "s", "t", "-", "1", "a">>
s_qa == <<"q", "a">>
s_elb1 == <<"e", "l", "b", "-", "1">>
s_ELB2 == <<"E", "L", "B", "-", "2">>
s_elb == <<"e", "l", "b">>
s_dns1 == <<"e", "l", "b", "-", "1", ".", "a", "w", "s">>
s_dns2 == <<"e", "l", "b", "-", "2", ".", "a", "w", "s">>
s_aws == <<"A", "W", "S">>
s_internal == <<"i", "n", "t", "e", "r", "n", "a", "l">>
s_None == <<"N", "o", "n", "e">>
s_all == <<"a", "l", "l">>
s_terminated == <<"t", "e", "r", "m", "i", "n", "a", "t", "e", "d">>
s_empty == <<>>
s_useast1 == <<"u", "s", "-", "e", "a", "s", "t", "-", "1">>
s_uswest2 == <<"u", "s", "-", "w", "e", "s", "t", "-", "2">>
s_na == <<"n", "/", "a">>
s_ssh == <<"s", "s", "h", ":", "/", "/">>
s_utc == <<"+", "0", "0", ":", "0", "0">>

(***************************************************************************)
(* Python strings                                                          *)
(***************************************************************************)
UpperToLower ==
    "A" :> "a" @@ "B" :> "b" @@ "C" :> "c" @@ "D" :> "d" @@ "E" :> "e" @@
    "F" :> "f" @@ "G" :> "g" @@ "H" :> "h" @@ "I" :> "i" @@ "J" :> "j" @@
    "K" :> "k" @@ "L" :> "l" @@ "M" :> "m" @@ "N" :> "n" @@ "O" :> "o" @@
    "P" :> "p" @@ "Q" :> "q" @@ "R" :> "r" @@ "S" :> "s" @@ "T" :> "t" @@
    "U" :> "u" @@ "V" :> "v" @@ "W" :> "w" @@ "X" :> "x" @@ "Y" :> "y" @@
    "Z" :> "z"

\* str.lower()
lower(s) ==
    [i \in 1..Len(s) |-> IF s[i] \in DOMAIN UpperToLower THEN UpperToLower[s[i]] ELSE s[i]]

\* sub in s, for two strings
contains(sub, s) ==
    \E i \in 0..(Len(s) - Len(sub)) : SubSeq(s, i + 1, i + Len(sub)) = sub

\* "{}={}".format(k, v)
format_eq(k, v) == k \o <<"=">> \o v

(***************************************************************************)
(* Python values and outcomes                                              *)
(***************************************************************************)
Str(s) == [t |-> "str", v |-> s]
List(items) == [t |-> "list", v |-> items]
Dict(f) == [t |-> "dict", v |-> f]
PyInt(n) == [t |-> "int", v |-> n]
Bool(b) == [t |-> "bool", v |-> b]
None == [t |-> "none", v |-> 0]
True == Bool(TRUE)
False == Bool(FALSE)

Return(val) == [exc |-> "none", val |-> val]
Raise(e) == [exc |-> e, val |-> None]

\* datetime.datetime(year, ..., microsecond, tzinfo): tzinfo is "none" for a
\* naive value and "utc" for the UTC values the provider returns;
\* datetime.date(year, month, day)
Datetime(year, month, day, hour, minute, second, microsecond, tzinfo) ==
    [t |-> "datetime",
     v |-> [year |-> year, month |-> month, day |-> day, hour |-> hour, minute |-> minute,
            second |-> second, microsecond |-> microsecond, tzinfo |-> tzinfo]]
Date(year, month, day) ==
    [t |-> "date", v |-> [year |-> year, month |-> month, day |-> day]]

\* the truth value Python gives a value in a condition
truthy(val) ==
    CASE val.t = "str" -> Len(val.v) > 0
      [] val.t = "list" -> Len(val.v) > 0
      [] val.t = "dict" -> DOMAIN val.v # {}
      [] val.t = "int" -> val.v # 0
      [] val.t = "bool" -> val.v
      [] val.t = "datetime" \/ val.t = "date" -> TRUE
      [] OTHER -> FALSE

\* val[key] for a string key: only a dict accepts it
subscript(val, key) ==
    IF val.t = "dict"
    THEN IF key \in DOMAIN val.v THEN Return(val.v[key]) ELSE Raise("KeyError")
    ELSE Raise("TypeError")

\* a tag {"Key": k, "Value": v} and a security group of the provider
Tag(k, v) == Dict("Key" :> Str(k) @@ "Value" :> Str(v))
SecurityGroup(name, id) == Dict("GroupName" :> Str(name) @@ "GroupId" :> Str(id))

\* the elements a for loop or a comprehension visits: the characters of a
\* string, the items of a list
iterate(val) ==
    IF val.t = "str" THEN [i \in 1..Len(val.v) |-> Str(<<val.v[i]>>)] ELSE val.v

(***************************************************************************)
(* AWSInstance, Ec2Instance, ElbInstance: a record is                      *)
(* [instance |-> the provider's mapping, aws_account |-> the account]      *)
(***************************************************************************)
\* AWSInstance.__getitem__: a missing key gives []
AWSInstance_getitem(self, item) ==
    IF item \in DOMAIN self.instance THEN Return(self.instance[item]) ELSE Return(List(<<>>))

\* Ec2Instance._get_name: the value of the first tag whose key is "Name",
\* None when the loop ends without one
RECURSIVE Ec2Instance_get_name_loop(_, _)
Ec2Instance_get_name_loop(tags, i) ==
    IF i > Len(tags) THEN Return(None)
    ELSE LET key == subscript(tags[i], "Key") IN
         IF key.exc # "none" THEN key
         ELSE IF key.val.t = "str" /\ key.val.v = s_Name THEN subscript(tags[i], "Value")
         ELSE Ec2Instance_get_name_loop(tags, i + 1)

Ec2Instance_get_name(self) ==
    LET tags == AWSInstance_getitem(self, "Tags").val IN
    IF tags.t = "list" THEN Ec2Instance_get_name_loop(tags.v, 1) ELSE Raise("TypeError")

\* Ec2Instance.__getitem__
Ec2Instance_getitem(self, item) ==
    IF item = "aws_account" THEN Return(self.aws_account)
    ELSE IF item = "Name" \/ item = "instance_name" THEN Ec2Instance_get_name(self)
    ELSE IF item = "instance_placement"
         THEN subscript(AWSInstance_getitem(self, "Placement").val, "AvailabilityZone")
    ELSE AWSInstance_getitem(self, item)

\* ElbInstance._get_name
ElbInstance_get_name(self) == AWSInstance_getitem(self, "LoadBalancerName")

\* ElbInstance.__getitem__
ElbInstance_getitem(self, item) ==
    IF item = "aws_account" THEN Return(self.aws_account)
    ELSE IF item = "Name" \/ item = "instance_name" THEN ElbInstance_get_name(self)
    ELSE IF item = "instance_placement"
         THEN subscript(AWSInstance_getitem(self, "Placement").val, "AvailabilityZone")
    ELSE AWSInstance_getitem(self, item)

(***************************************************************************)
(* Ec2Instance: the matchers.  A matcher returns True or falls off its end *)
(* (None).  The tags and security groups of a record are lists of          *)
(* mappings with string "Key"/"Value" and "GroupName"/"GroupId", as the    *)
(* provider returns them.                                                  *)
(***************************************************************************)
\* Ec2Instance._sg_format
sg_format(sg_name, sg_id) == sg_name \o <<" ", "-", " ">> \o sg_id

\* the list instance_tags of _match_tags: "key=value", lower-cased, of the
\* tags whose key is not "Name"
instance_tags_of(self) ==
    LET tags == Ec2Instance_getitem(self, "Tags").val.v
        kept == SelectSeq(tags, LAMBDA tag : tag.v["Key"].v # s_Name)
    IN [i \in 1..Len(kept) |-> format_eq(lower(kept[i].v["Key"].v), lower(kept[i].v["Value"].v))]

\* the list sg_tags of _match_securitygroups
sg_tags_of(self) ==
    LET sgs == Ec2Instance_getitem(self, "SecurityGroups").val.v
    IN [i \in 1..Len(sgs) |-> sg_format(lower(sgs[i].v["GroupName"].v), lower(sgs[i].v["GroupId"].v))]

\* the keys of the dict comprehension
\* {m: i for m in match for i in candidates if m.lower() in i}
matches_keys(match, candidates) ==
    LET ms == iterate(match) IN
    { ms[k].v : k \in { j \in 1..Len(ms) :
                          \E c \in 1..Len(candidates) : contains(lower(ms[j].v), candidates[c]) } }

\* Ec2Instance._match_tags
Ec2Instance_match_tags(self, match_tags) ==
    IF Cardinality(matches_keys(match_tags, instance_tags_of(self))) = Len(match_tags.v)
    THEN Return(True) ELSE Return(None)

\* Ec2Instance._match_securitygroups
Ec2Instance_match_securitygroups(self, match_sgs) ==
    IF Cardinality(matches_keys(match_sgs, sg_tags_of(self))) = Len(match_sgs.v)
    THEN Return(True) ELSE Return(None)

\* "ip and match_ip in ip" for one address of _match_ip: a falsy address
\* ends the test, a string is searched, anything else cannot be searched
\* for a string
ip_test(ip, match_ip) ==
    IF ~truthy(ip) THEN Return(False)
    ELSE IF ip.t = "str" THEN Return(Bool(contains(match_ip.v, ip.v)))
    ELSE IF ip.t = "list" \/ ip.t = "dict" THEN Return(False)
    ELSE Raise("TypeError")

\* Ec2Instance._match_ip: the private address is tested first
Ec2Instance_match_ip(self, match_ip) ==
    LET public_ip == Ec2Instance_getitem(self, "PublicIpAddress").val
        private_ip == Ec2Instance_getitem(self, "PrivateIpAddress").val
        private == ip_test(private_ip, match_ip)
        public == ip_test(public_ip, match_ip)
    IN IF private.exc # "none" THEN private
       ELSE IF private.val.v THEN Return(True)
       ELSE IF public.exc # "none" THEN public
       ELSE IF public.val.v THEN Return(True)
       ELSE Return(None)

\* a state match that searches the state name (in for ==)
Ec2Instance_match_state_substring(self, match_state) ==
    LET running_state == subscript(Ec2Instance_getitem(self, "State").val, "Name") IN
    IF running_state.exc # "none" THEN running_state
    ELSE IF running_state.val.t = "str" /\ contains(match_state.v, running_state.val.v)
         THEN Return(True) ELSE Return(None)

\* Ec2Instance._match_state: exact comparison with self['State']['Name']
Ec2Instance_match_state(self, match_state) ==
    LET running_state == subscript(Ec2Instance_getitem(self, "State").val, "Name") IN
    IF running_state.exc # "none" THEN running_state
    ELSE IF running_state.val.t = "str" /\ running_state.val.v = match_state.v
         THEN Return(True) ELSE Return(None)

\* a name test that leaves the name in its case (name for name.lower())
name_test_case_sensitive(name, value) ==
    IF ~truthy(name) THEN Return(None)
    ELSE IF name.t # "str" THEN Raise("AttributeError")
    ELSE IF contains(lower(value.v), name.v) THEN Return(True)
    ELSE Return(None)

\* "name and value.lower() in name.lower()" of _match_name and _match_id
name_test(name, value) ==
    IF ~truthy(name) THEN Return(None)
    ELSE IF name.t # "str" THEN Raise("AttributeError")
    ELSE IF contains(lower(value.v), lower(name.v)) THEN Return(True)
    ELSE Return(None)

\* a name match that compares the whole name (== for in)
Ec2Instance_match_name_exact(self, match_name) ==
    LET name == Ec2Instance_getitem(self, "Name") IN
    IF name.exc # "none" THEN name
    ELSE IF truthy(name.val) /\ lower(match_name.v) = lower(name.val.v) THEN Return(True)
    ELSE Return(None)

\* Ec2Instance._match_name
Ec2Instance_match_name(self, match_name) ==
    LET name == Ec2Instance_getitem(self, "Name") IN
    IF name.exc # "none" THEN name ELSE name_test(name.val, match_name)

\* Ec2Instance._match_id
Ec2Instance_match_id(self, match_instance_id) ==
    LET name == Ec2Instance_getitem(self, "InstanceId") IN
    IF name.exc # "none" THEN name ELSE name_test(name.val, match_instance_id)

\* Ec2Instance._match_generic: the lookup is outside the try, the
\* AttributeError of a field without lower() is caught
Ec2Instance_match_generic(self, value, attribute) ==
    LET field_value == Ec2Instance_getitem(self, attribute) IN
    IF field_value.exc # "none" THEN field_value
    ELSE IF field_value.val.t # "str" THEN Return(False)
    ELSE IF contains(lower(value.v), lower(field_value.val.v)) THEN Return(True)
    ELSE Return(None)

\* the keys of match_methods
match_methods == {"instance_tags", "instance_ip", "instance_state",
                  "instance_name", "instance_id", "instance_sg"}

\* match_methods[attribute](value)
Ec2Instance_dispatch(self, attribute, value) ==
    CASE attribute = "instance_tags" -> Ec2Instance_match_tags(self, value)
      [] attribute = "instance_ip" -> Ec2Instance_match_ip(self, value)
      [] attribute = "instance_state" -> Ec2Instance_match_state(self, value)
      [] attribute = "instance_name" -> Ec2Instance_match_name(self, value)
      [] attribute = "instance_id" -> Ec2Instance_match_id(self, value)
      [] attribute = "instance_sg" -> Ec2Instance_match_securitygroups(self, value)
      [] OTHER -> Raise("KeyError")

\* Ec2Instance.match: a KeyError of the table or of the matcher it called
\* goes to _match_generic
Ec2Instance_match(self, attribute, value) ==
    LET out == Ec2Instance_dispatch(self, attribute, value) IN
    IF out.exc = "KeyError" THEN Ec2Instance_match_generic(self, value, attribute) ELSE out

\* ElbInstance.match: no try around the lookup or around lower()
ElbInstance_match(self, attribute, value) ==
    LET real_attribute == IF attribute = "instance_dns_name" THEN "DNSName" ELSE attribute
        field_value == ElbInstance_getitem(self, real_attribute)
    IN IF field_value.exc # "none" THEN field_value
       ELSE IF field_value.val.t # "str" THEN Raise("AttributeError")
       ELSE IF contains(lower(value.v), lower(field_value.val.v)) THEN Return(True)
       ELSE Return(None)

(***************************************************************************)
(* The printable values: json_serial and get_field_printable_value with    *)
(* the formatters of its table.  A formatter builds the dict print_formats *)
(* with the value of every format before it selects one, so it raises what *)
(* any of the formats raises.                                              *)
(***************************************************************************)
Digits == <<"0", "1", "2", "3", "4", "5", "6", "7", "8", "9">>

\* the decimal digits of n, zero-padded to width ("%04d", "%02d", "%06d")
RECURSIVE zfill(_, _)
zfill(n, width) ==
    IF width = 0 THEN <<>> ELSE zfill(n \div 10, width - 1) \o <<Digits[(n % 10) + 1]>>

\* date.isoformat(): YYYY-MM-DD
date_isoformat(d) ==
    zfill(d.year, 4) \o <<"-">> \o zfill(d.month, 2) \o <<"-">> \o zfill(d.day, 2)

\* datetime.isoformat(): YYYY-MM-DDTHH:MM:SS[.ffffff][+HH:MM]
datetime_isoformat(d) ==
    date_isoformat(d) \o <<"T">> \o
    zfill(d.hour, 2) \o <<":">> \o zfill(d.minute, 2) \o <<":">> \o zfill(d.second, 2) \o
    (IF d.microsecond # 0 THEN <<".">> \o zfill(d.microsecond, 6) ELSE <<>>) \o
    (IF d.tzinfo = "utc" THEN s_utc ELSE <<>>)

\* AWSInstance.json_serial
json_serial(obj) ==
    IF obj.t = "datetime" THEN Return(Str(datetime_isoformat(obj.v)))
    ELSE IF obj.t = "date" THEN Return(Str(date_isoformat(obj.v)))
    ELSE Raise("TypeError")

\* sep.join(strs) for a sequence of strings
RECURSIVE join(_, _)
join(strs, sep) ==
    IF Len(strs) = 0 THEN <<>>
    ELSE IF Len(strs) = 1 THEN strs[1]
    ELSE strs[1] \o sep \o join(Tail(strs), sep)

\* "{}".format(val) for the values a printed field holds
format_value(val) ==
    CASE val.t = "str" -> val.v
      [] val.t = "datetime" -> datetime_isoformat(val.v)
      [] val.t = "none" -> s_None

\* the outcome of a comprehension whose elements have the outcomes outs, a
\* skipped element having the value None: the first exception, or the list
\* of the strings kept
comprehension(outs) ==
    LET raising == { i \in 1..Len(outs) : outs[i].exc # "none" } IN
    IF raising # {}
    THEN outs[CHOOSE i \in raising : \A j \in raising : i <= j]
    ELSE LET kept == SelectSeq(outs, LAMBDA o : o.val.t = "str")
         IN Return(List([i \in 1..Len(kept) |-> kept[i].val.v]))

\* the elements a formatter's comprehension visits; a value that cannot be
\* iterated raises TypeError
formatter_items(data) ==
    IF data.t \in {"list", "str"} THEN Return(List(iterate(data))) ELSE Raise("TypeError")

\* one element of the comprehensions of _get_tag_printable_value
tag_entry(tags) ==
    LET key == subscript(tags, "Key")
        value == subscript(tags, "Value")
    IN IF key.exc # "none" THEN key
       ELSE IF key.val.t = "str" /\ key.val.v = s_None THEN Return(None)
       ELSE IF value.exc # "none" THEN value
       ELSE Return(Str(format_eq(format_value(key.val), format_value(value.val))))

\* one element of the generators of Ec2Instance._get_securitygroups_printable_value
sg_entry(sg) ==
    LET name == subscript(sg, "GroupName")
        id == subscript(sg, "GroupId")
    IN IF name.exc # "none" THEN name
       ELSE IF id.exc # "none" THEN id
       ELSE Return(Str(sg_format(format_value(name.val), format_value(id.val))))

\* one element of the comprehensions of ElbInstance._get_instances_printable_value
instance_entry(inst) == subscript(inst, "InstanceId")

\* sep.join(...) of a comprehension: join accepts strings only
joined(entries, sep) ==
    IF entries.exc # "none" THEN entries ELSE Return(Str(join(entries.val.v, sep)))

\* print_formats[print_format] for the formats 'table' and 'json': the table
\* value is built first
print_formats(table, json, print_format) ==
    IF table.exc # "none" THEN table
    ELSE IF json.exc # "none" THEN json
    ELSE IF print_format = "table" THEN table
    ELSE IF print_format = "json" THEN json
    ELSE Raise("KeyError")

\* the entries of a formatter's comprehension over data
entries_of(data, outs) ==
    IF formatter_items(data).exc # "none" THEN formatter_items(data) ELSE comprehension(outs)

\* Ec2Instance._get_tag_printable_value: the tags whose key is not 'None'
Ec2Instance_get_tag_printable_value(tag_data, print_format) ==
    LET items == iterate(tag_data)
        entries == entries_of(tag_data, [i \in 1..Len(items) |-> tag_entry(items[i])])
    IN print_formats(joined(entries, <<"\n">>), joined(entries, <<",">>), print_format)

\* Ec2Instance._get_ip_printable_value
Ec2Instance_get_ip_printable_value(ip_data, print_format) ==
    print_formats(Return(IF truthy(ip_data) THEN Str(s_ssh \o format_value(ip_data)) ELSE Str(s_na)),
                  Return(IF truthy(ip_data) THEN Str(format_value(ip_data)) ELSE Str(s_na)),
                  print_format)

\* Ec2Instance._get_state_printable_value
Ec2Instance_get_state_printable_value(state_data, print_format) ==
    subscript(state_data, "Name")

\* Ec2Instance._get_securitygroups_printable_value
Ec2Instance_get_securitygroups_printable_value(sg_data, print_format) ==
    LET items == iterate(sg_data)
        entries == entries_of(sg_data, [i \in 1..Len(items) |-> sg_entry(items[i])])
    IN print_formats(joined(entries, <<"\n">>), joined(entries, <<",">>), print_format)

\* Ec2Instance._get_launchtime_printable_value
Ec2Instance_get_launchtime_printable_value(lt_data, print_format) ==
    print_formats(Return(lt_data), json_serial(lt_data), print_format)

\* the keys of field_format_functions of Ec2Instance.get_field_printable_value
Ec2Instance_field_format_functions ==
    {"Tags", "PrivateIpAddress", "PublicIpAddress", "State", "SecurityGroups", "LaunchTime"}

\* field_format_functions[field_name](field_data, print_format)
Ec2Instance_format(field_name, field_data, print_format) ==
    CASE field_name = "Tags" -> Ec2Instance_get_tag_printable_value(field_data, print_format)
      [] field_name \in {"PrivateIpAddress", "PublicIpAddress"} ->
            Ec2Instance_get_ip_printable_value(field_data, print_format)
      [] field_name = "State" -> Ec2Instance_get_state_printable_value(field_data, print_format)
      [] field_name = "SecurityGroups" ->
            Ec2Instance_get_securitygroups_printable_value(field_data, print_format)
      [] field_name = "LaunchTime" ->
            Ec2Instance_get_launchtime_printable_value(field_data, print_format)
      [] OTHER -> Raise("KeyError")

\* Ec2Instance.get_field_printable_value: the lookup is outside the try; a
\* KeyError of the table or of the formatter gives the raw value
Ec2Instance_get_field_printable_value(self, field_name, print_format) ==
    LET field_data == Ec2Instance_getitem(self, field_name) IN
    IF field_data.exc # "none" THEN field_data
    ELSE LET printable_data == Ec2Instance_format(field_name, field_data.val, print_format)
         IN IF printable_data.exc = "KeyError" THEN field_data ELSE printable_data

\* ElbInstance._get_instances_printable_value
ElbInstance_get_instances_printable_value(insts, print_format) ==
    LET items == iterate(insts)
        entries == entries_of(insts, [i \in 1..Len(items) |-> instance_entry(items[i])])
        strings == IF entries.exc = "none" /\ \E i \in 1..Len(items) : instance_entry(items[i]).val.t # "str"
                   THEN Raise("TypeError") ELSE entries
    IN print_formats(joined(strings, <<"\n">>), joined(strings, <<",">>), print_format)

\* ElbInstance._get_securitygroups_printable_value: the groups are strings
ElbInstance_get_securitygroups_printable_value(sg_data, print_format) ==
    LET items == iterate(sg_data)
        entries == entries_of(sg_data, [i \in 1..Len(items) |-> Return(items[i])])
        strings == IF entries.exc = "none" /\ \E i \in 1..Len(items) : items[i].t # "str"
                   THEN Raise("TypeError") ELSE entries
    IN print_formats(joined(strings, <<"\n">>), joined(strings, <<",">>), print_format)

\* ElbInstance._get_createdtime_printable_value
ElbInstance_get_createdtime_printable_value(ct_data, print_format) ==
    print_formats(Return(ct_data), json_serial(ct_data), print_format)

\* field_format_functions[field_name](field_data, print_format) of ElbInstance
ElbInstance_format(field_name, field_data, print_format) ==
    CASE field_name = "Instances" -> ElbInstance_get_instances_printable_value(field_data, print_format)
      [] field_name = "SecurityGroups" ->
            ElbInstance_get_securitygroups_printable_value(field_data, print_format)
      [] field_name = "CreatedTime" ->
            ElbInstance_get_createdtime_printable_value(field_data, print_format)
      [] OTHER -> Raise("KeyError")

\* ElbInstance.get_field_printable_value
ElbInstance_get_field_printable_value(self, field_name, print_format) ==
    LET field_data == ElbInstance_getitem(self, field_name) IN
    IF field_data.exc # "none" THEN field_data
    ELSE LET printable_data == ElbInstance_format(field_name, field_data.val, print_format)
         IN IF printable_data.exc = "KeyError" THEN field_data ELSE printable_data

\* Ec2Instance.instance_fields
Ec2Instance_instance_fields == <<
    [name |-> "instance_name", printable_name |-> "Name", verbose_display |-> FALSE],
    [name |-> "InstanceId", printable_name |-> "Instance ID", verbose_display |-> FALSE],
    [name |-> "InstanceType", printable_name |-> "Type", verbose_display |-> TRUE],
    [name |-> "State", printable_name |-> "State", verbose_display |-> TRUE],
    [name |-> "instance_placement", printable_name |-> "Placement", verbose_display |-> FALSE],
    [name |-> "PrivateIpAddress", printable_name |-> "Private IP", verbose_display |-> FALSE],
    [name |-> "PublicIpAddress", printable_name |-> "Public IP", verbose_display |-> FALSE],
    [name |-> "Tags", printable_name |-> "Tags", verbose_display |-> FALSE],
    [name |-> "SecurityGroups", printable_name |-> "Security Groups", verbose_display |-> TRUE],
    [name |-> "LaunchTime", printable_name |-> "Launch Time", verbose_display |-> TRUE],
    [name |-> "aws_account", printable_name |-> "Account", verbose_display |-> FALSE]
>>

\* ElbInstance.instance_fields
ElbInstance_instance_fields == <<
    [name |-> "instance_name", printable_name |-> "Name", verbose_display |-> FALSE],
    [name |-> "DNSName", printable_name |-> "DNS Name", verbose_display |-> FALSE],
    [name |-> "Instances", printable_name |-> "EC2 Instances", verbose_display |-> FALSE],
    [name |-> "SecurityGroups", printable_name |-> "Security Groups", verbose_display |-> TRUE],
    [name |-> "CreatedTime", printable_name |-> "Created Time", verbose_display |-> TRUE],
    [name |-> "aws_account", printable_name |-> "Account", verbose_display |-> FALSE]
>>

\* AWSInstance._get_printable_fields (lines 34-51): the fields of
\* cls.instance_fields (instance_fields) that are printed, in order
AWSInstance_get_printable_fields(instance_fields, verbose) ==
    SelectSeq(instance_fields,
              LAMBDA field : IF verbose /\ field.verbose_display THEN TRUE
                             ELSE ~field.verbose_display)

\* AWSInstance.get_printable_attribute_names
AWSInstance_get_printable_attribute_names(instance_fields, verbose) ==
    LET printable_fields == AWSInstance_get_printable_fields(instance_fields, verbose)
    IN [j \in 1..Len(printable_fields) |-> printable_fields[j].printable_name]

\* AWSInstance.get_attributes
AWSInstance_get_attributes(instance_fields, verbose) ==
    LET printable_fields == AWSInstance_get_printable_fields(instance_fields, verbose)
    IN [j \in 1..Len(printable_fields) |-> printable_fields[j].name]

(***************************************************************************)
(* search.py: the record classes the search objects of the command line    *)
(* wrap the provider's answers in.  An EC2 record wraps a resource object  *)
(* of the provider, whose attributes are read by name; an ELB record wraps *)
(* a mapping.                                                              *)
(***************************************************************************)
\* the data attributes of the provider's EC2 resource object, each with the
\* key of the description it reads; an attribute whose key is absent from
\* the description is None, any other attribute name does not exist
InstanceAttributes ==
    "tags" :> "Tags" @@ "state" :> "State" @@ "instance_id" :> "InstanceId" @@
    "instance_type" :> "InstanceType" @@ "ami_launch_index" :> "AmiLaunchIndex" @@
    "private_ip_address" :> "PrivateIpAddress" @@ "public_ip_address" :> "PublicIpAddress" @@
    "placement" :> "Placement" @@ "security_groups" :> "SecurityGroups" @@
    "launch_time" :> "LaunchTime"

\* AWSInstance._get_attribute: __getitem__ on a mapping, __getattribute__
\* on a resource object
search_get_attribute(self, attribute, is_dict) ==
    IF is_dict THEN subscript(Dict(self.instance), attribute)
    ELSE IF attribute \in DOMAIN InstanceAttributes
         THEN IF InstanceAttributes[attribute] \in DOMAIN self.instance
              THEN Return(self.instance[InstanceAttributes[attribute]])
              ELSE Return(None)
         ELSE Raise("AttributeError")

\* Ec2Instance._get_name: the loop over self.instance.tags
search_Ec2Instance_get_name(self) ==
    LET tags == search_get_attribute(self, "tags", FALSE).val IN
    IF tags.t = "list" THEN Ec2Instance_get_name_loop(tags.v, 1) ELSE Raise("TypeError")

\* Ec2Instance.__getattr__
search_Ec2Instance_getattr(self, attribute) ==
    IF attribute = "aws_account" THEN Return(self.aws_account)
    ELSE IF attribute = "instance_name" THEN search_Ec2Instance_get_name(self)
    ELSE IF attribute = "instance_placement"
         THEN subscript(search_get_attribute(self, "placement", FALSE).val, "AvailabilityZone")
    ELSE search_get_attribute(self, attribute, FALSE)

\* "value.lower() in field_value.lower()" then "return True": only a string
\* has lower()
lower_test(field_value, value) ==
    IF field_value.t # "str" THEN Raise("AttributeError")
    ELSE IF contains(lower(value.v), lower(field_value.v)) THEN Return(True)
    ELSE Return(None)

\* the loop of the instance_tags branch of Ec2Instance.match from tag i on:
\* "key:value" of each tag but Name is searched for the value
RECURSIVE search_match_tags_loop(_, _, _)
search_match_tags_loop(tags, value, i) ==
    IF i > Len(tags) THEN Return(None)
    ELSE LET key == subscript(tags[i], "Key")
             val == subscript(tags[i], "Value")
         IN IF key.exc # "none" THEN key
            ELSE IF key.val.t = "str" /\ key.val.v = s_Name
                 THEN search_match_tags_loop(tags, value, i + 1)
            ELSE IF val.exc # "none" THEN val
            ELSE IF contains(lower(value.v), lower(format_value(key.val) \o <<":">> \o format_value(val.val)))
                 THEN Return(True)
            ELSE search_match_tags_loop(tags, value, i + 1)

\* Ec2Instance.match
search_Ec2Instance_match(self, attribute, value) ==
    IF attribute = "instance_tags"
    THEN LET tags == search_get_attribute(self, "tags", FALSE).val IN
         IF tags.t = "list" THEN search_match_tags_loop(tags.v, value, 1) ELSE Raise("TypeError")
    ELSE IF attribute = "instance_ip"
    THEN LET public_ip == search_Ec2Instance_getattr(self, "public_ip_address").val
             private_ip == search_Ec2Instance_getattr(self, "private_ip_address").val
             private == ip_test(private_ip, value)
             public == ip_test(public_ip, value)
         IN IF private.exc # "none" THEN private
            ELSE IF private.val.v THEN Return(True)
            ELSE IF public.exc # "none" THEN public
            ELSE IF public.val.v THEN Return(True)
            ELSE Return(None)
    ELSE LET field_value == search_Ec2Instance_getattr(self, attribute) IN
         IF field_value.exc # "none" THEN field_value
         ELSE lower_test(field_value.val, value)

\* ElbInstance.__getattr__
search_ElbInstance_getattr(self, attribute) ==
    IF attribute = "aws_account" THEN Return(self.aws_account)
    ELSE IF attribute = "instance_name" THEN search_get_attribute(self, "LoadBalancerName", TRUE)
    ELSE IF attribute = "instance_placement"
         THEN LET placement == search_get_attribute(self, "placement", TRUE) IN
              IF placement.exc # "none" THEN placement
              ELSE subscript(placement.val, "AvailabilityZone")
    ELSE search_get_attribute(self, attribute, TRUE)

\* ElbInstance.match
search_ElbInstance_match(self, attribute, value) ==
    LET real_attribute == IF attribute = "instance_dns_name" THEN "DNSName" ELSE attribute
        field_value == search_ElbInstance_getattr(self, real_attribute)
    IN IF field_value.exc # "none" THEN field_value
       ELSE lower_test(field_value.val, value)

(***************************************************************************)
(* search.py: what print_instances puts in the cells of the table          *)
(***************************************************************************)
\* the characters of the strings of the records, in code point order
CodePoints ==
    <<" ", "-", ".", "0", "1", "2", "3", "4", "5", "6", "7", "8", "9", ":", "=",
      "A", "B", "C", "D", "E", "F", "G", "H", "I", "J", "K", "L", "M", "N", "O", "P", "Q", "R",
      "S", "T", "U", "V", "W", "X", "Y", "Z", "_",
      "a", "b", "c", "d", "e", "f", "g", "h", "i", "j", "k", "l", "m", "n", "o", "p", "q", "r",
      "s", "t", "u", "v", "w", "x", "y", "z">>

ord(c) == CHOOSE i \in DOMAIN CodePoints : CodePoints[i] = c

\* a < b for two strings
RECURSIVE str_less(_, _)
str_less(a, b) ==
    IF Len(b) = 0 THEN FALSE
    ELSE IF Len(a) = 0 THEN TRUE
    ELSE IF Head(a) = Head(b) THEN str_less(Tail(a), Tail(b))
    ELSE ord(Head(a)) < ord(Head(b))

\* list.sort() after an append to a sorted list: the new string goes behind
\* the strings that are not greater
RECURSIVE insert_sorted(_, _)
insert_sorted(strs, new) ==
    IF Len(strs) = 0 THEN <<new>>
    ELSE IF str_less(new, Head(strs)) THEN <<new>> \o strs
    ELSE <<Head(strs)>> \o insert_sorted(Tail(strs), new)

\* the loop of SearchEc2Instances._get_tag_printable_value from tag i on
RECURSIVE search_tag_loop(_, _, _)
search_tag_loop(tags, i, printable_tag_data) ==
    IF i > Len(tags) THEN Return(Str(join(printable_tag_data, <<",", " ">>)))
    ELSE LET key == subscript(tags[i], "Key")
             val == subscript(tags[i], "Value")
         IN IF key.exc # "none" THEN key
            ELSE IF key.val.t = "str" /\ key.val.v = s_Name
                 THEN search_tag_loop(tags, i + 1, printable_tag_data)
            ELSE IF val.exc # "none" THEN val
            ELSE search_tag_loop(tags, i + 1,
                     insert_sorted(printable_tag_data,
                                   format_value(key.val) \o <<":">> \o format_value(val.val)))

\* SearchEc2Instances._get_tag_printable_value
search_get_tag_printable_value(tag_data) ==
    IF tag_data.t = "list" THEN search_tag_loop(tag_data.v, 1, <<>>) ELSE Raise("TypeError")

\* SearchEc2Instances._get_ip_printable_value
search_get_ip_printable_value(ip_data) ==
    IF truthy(ip_data) THEN Return(Str(s_ssh \o format_value(ip_data))) ELSE Return(Str(s_na))

\* SearchElbInstances._get_instances_printable_value
search_get_instances_printable_value(insts) ==
    IF insts.t # "list" THEN Raise("TypeError")
    ELSE LET outs == [i \in 1..Len(insts.v) |-> subscript(insts.v[i], "InstanceId")]
             raising == { i \in 1..Len(outs) : outs[i].exc # "none" }
         IN IF raising # {} THEN outs[CHOOSE i \in raising : \A j \in raising : i <= j]
            ELSE Return(Str(join([i \in 1..Len(outs) |-> format_value(outs[i].val)], <<",", " ">>)))

\* getattr(instance, field_name): aws_account is an attribute of the
\* record, any other name goes to __getattr__
search_getattr(cls, self, field_name) ==
    IF field_name = "aws_account" THEN Return(self.aws_account)
    ELSE IF cls = "SearchEc2Instances" THEN search_Ec2Instance_getattr(self, field_name)
    ELSE search_ElbInstance_getattr(self, field_name)

\* _get_field_printable_value of the two search classes: a KeyError, of
\* the formatter table or of the formatter, gives the raw value
search_get_field_printable_value(cls, self, field_name) ==
    LET field_data == search_getattr(cls, self, field_name)
        printable_data ==
            IF cls = "SearchEc2Instances" /\ field_name = "tags"
            THEN search_get_tag_printable_value(field_data.val)
            ELSE IF cls = "SearchEc2Instances" /\ field_name \in {"private_ip_address", "public_ip_address"}
            THEN search_get_ip_printable_value(field_data.val)
            ELSE IF cls = "SearchElbInstances" /\ field_name = "Instances"
            THEN search_get_instances_printable_value(field_data.val)
            ELSE Raise("KeyError")
    IN IF field_data.exc # "none" THEN field_data
       ELSE IF printable_data.exc = "KeyError" THEN Return(field_data.val)
       ELSE printable_data

\* display_fields of SearchEc2Instances and of SearchElbInstances
search_display_fields(cls) ==
    IF cls = "SearchEc2Instances"
    THEN << [name |-> "instance_name", printable_name |-> "Name", verbose_display |-> FALSE],
            [name |-> "instance_id", printable_name |-> "Instance ID", verbose_display |-> FALSE],
            [name |-> "instance_type", printable_name |-> "Type", verbose_display |-> TRUE],
            [name |-> "state", printable_name |-> "State", verbose_display |-> TRUE],
            [name |-> "instance_placement", printable_name |-> "Placement", verbose_display |-> FALSE],
            [name |-> "private_ip_address", printable_name |-> "Private IP", verbose_display |-> FALSE],
            [name |-> "public_ip_address", printable_name |-> "Public IP", verbose_display |-> FALSE],
            [name |-> "tags", printable_name |-> "Tags", verbose_display |-> FALSE],
            [name |-> "launch_time", printable_name |-> "Launce Time", verbose_display |-> TRUE],
            [name |-> "aws_account", printable_name |-> "Account", verbose_display |-> FALSE] >>
    ELSE << [name |-> "instance_name", printable_name |-> "Name", verbose_display |-> FALSE],
            [name |-> "DNSName", printable_name |-> "DNS Name", verbose_display |-> FALSE],
            [name |-> "Instances", printable_name |-> "Instances", verbose_display |-> FALSE],
            [name |-> "CreatedTime", printable_name |-> "Created Time", verbose_display |-> TRUE],
            [name |-> "aws_account", printable_name |-> "Account", verbose_display |-> FALSE] >>

\* _get_printable_fields without the test of verbose_display: every field
\* of the catalog, whatever the verbose flag
search_get_printable_fields_all(cls, verbose) ==
    search_display_fields(cls)

\* SearchAWSResources._get_printable_fields
search_get_printable_fields(cls, verbose) ==
    SelectSeq(search_display_fields(cls),
              LAMBDA field : (verbose /\ field.verbose_display) \/ ~field.verbose_display)

(***************************************************************************)
(* The records the provider can return.  A record's identity is its        *)
(* position in the universe of its resource type: records 1 and 3 of each  *)
(* type are two objects with equal content.                                *)
(***************************************************************************)
Ec2Records == <<
    \* 1: "web-1", running
    [aws_account |-> Str(s_prod),
     instance |-> [Tags |-> List(<<Tag(s_Name, s_web1)>>),
                   State |-> Dict("Code" :> PyInt(16) @@ "Name" :> Str(s_running)),
                   InstanceId |-> Str(s_i1),
                   InstanceType |-> Str(s_t2micro),
                   AmiLaunchIndex |-> PyInt(0),
                   PrivateIpAddress |-> Str(s_ip1),
                   Placement |-> Dict("AvailabilityZone" :> Str(s_zone)),
                   SecurityGroups |-> List(<<SecurityGroup(s_web, s_sg1)>>),
                   LaunchTime |-> Datetime(2017, 5, 1, 9, 30, 0, 0, "utc")]],
    \* 2: "web-2", stopped, tagged env=prod and team=core
    [aws_account |-> Str(s_prod),
     instance |-> [Tags |-> List(<<Tag(s_env, s_prod), Tag(s_Name, s_web2), Tag(s_team, s_core)>>),
                   State |-> Dict("Code" :> PyInt(80) @@ "Name" :> Str(s_stopped)),
                   InstanceId |-> Str(s_i2),
                   InstanceType |-> Str(s_t2micro),
                   AmiLaunchIndex |-> PyInt(1),
                   PrivateIpAddress |-> Str(s_ip2),
                   PublicIpAddress |-> Str(s_pub1),
                   Placement |-> Dict("AvailabilityZone" :> Str(s_zone)),
                   SecurityGroups |-> List(<<SecurityGroup(s_web, s_sg1), SecurityGroup(s_db, s_sg2)>>),
                   LaunchTime |-> Datetime(2016, 12, 31, 23, 59, 7, 250, "none")]],
    \* 3: a second object with the content of record 1, of another account
    [aws_account |-> Str(s_qa),
     instance |-> [Tags |-> List(<<Tag(s_Name, s_web1)>>),
                   State |-> Dict("Code" :> PyInt(16) @@ "Name" :> Str(s_running)),
                   InstanceId |-> Str(s_i1),
                   InstanceType |-> Str(s_t2micro),
                   AmiLaunchIndex |-> PyInt(0),
                   PrivateIpAddress |-> Str(s_ip1),
                   Placement |-> Dict("AvailabilityZone" :> Str(s_zone)),
                   SecurityGroups |-> List(<<SecurityGroup(s_web, s_sg1)>>),
                   LaunchTime |-> Datetime(2017, 5, 1, 9, 30, 0, 0, "utc")]],
    \* 4: a record none of whose fields is present
    [aws_account |-> Str(s_qa),
     instance |-> <<>>],
    \* 5: "Web-Server-01", running, tagged Env=prod, without addresses,
    \* placement or security groups
    [aws_account |-> Str(s_prod),
     instance |-> [Tags |-> List(<<Tag(s_Env, s_prod), Tag(s_Name, s_WebServer01)>>),
                   State |-> Dict("Code" :> PyInt(16) @@ "Name" :> Str(s_running)),
                   InstanceId |-> Str(s_i3),
                   Placement |-> Dict(<<>>)]]
>>

ElbRecords == <<
    \* 1: "elb-1"
    [aws_account |-> Str(s_prod),
     instance |-> [LoadBalancerName |-> Str(s_elb1),
                   DNSName |-> Str(s_dns1),
                   Scheme |-> Str(s_internal),
                   Instances |-> List(<<Dict("InstanceId" :> Str(s_i1))>>),
                   SecurityGroups |-> List(<<Str(s_sg1), Str(s_sg2)>>),
                   CreatedTime |-> Datetime(2017, 5, 1, 9, 30, 0, 0, "utc")]],
    \* 2: "ELB-2"
    [aws_account |-> Str(s_prod),
     instance |-> [LoadBalancerName |-> Str(s_ELB2),
                   DNSName |-> Str(s_dns2),
                   Scheme |-> Str(s_internal),
                   Instances |-> List(<<>>),
                   CreatedTime |-> Datetime(2016, 12, 31, 23, 59, 7, 250, "none")]],
    \* 3: a second object with the content of record 1, of another account
    [aws_account |-> Str(s_qa),
     instance |-> [LoadBalancerName |-> Str(s_elb1),
                   DNSName |-> Str(s_dns1),
                   Scheme |-> Str(s_internal),
                   Instances |-> List(<<Dict("InstanceId" :> Str(s_i1))>>),
                   SecurityGroups |-> List(<<Str(s_sg1), Str(s_sg2)>>),
                   CreatedTime |-> Datetime(2017, 5, 1, 9, 30, 0, 0, "utc")]],
    \* 4: a record none of whose fields is present
    [aws_account |-> Str(s_qa),
     instance |-> <<>>],
    \* 5: a named load balancer without DNS name or scheme
    [aws_account |-> Str(s_qa),
     instance |-> [LoadBalancerName |-> Str(s_elb1),
                   Instances |-> List(<<>>)]]
>>

ResourceTypes == {"ec2", "elb"}

\* the record object with identity id of a collection of the given type
Record(res, id) == IF res = "ec2" THEN Ec2Records[id] ELSE ElbRecords[id]

RecordIds(res) == IF res = "ec2" THEN DOMAIN Ec2Records ELSE DOMAIN ElbRecords

\* inst.match(field, value), dispatched on the class of the record
match(res, id, field, value) ==
    IF res = "ec2" THEN Ec2Instance_match(Record(res, id), field, value)
    ELSE ElbInstance_match(Record(res, id), field, value)

\* instance[item], dispatched on the class of the record
getitem(res, id, item) ==
    IF res = "ec2" THEN Ec2Instance_getitem(Record(res, id), item)
    ELSE ElbInstance_getitem(Record(res, id), item)

\* get_field_printable_value(instance, field_name, print_format), dispatched
\* on the class of the record
get_field_printable_value(res, id, field_name, print_format) ==
    IF res = "ec2" THEN Ec2Instance_get_field_printable_value(Record(res, id), field_name, print_format)
    ELSE ElbInstance_get_field_printable_value(Record(res, id), field_name, print_format)

\* a match outcome that counts as a match in a condition
matched(out) == out.exc = "none" /\ truthy(out.val)

(***************************************************************************)
(* Filter specifications                                                   *)
(***************************************************************************)
\* the (field, value) pairs a filter specification is made of
FilterPairs ==
    [res \in ResourceTypes |->
        IF res = "ec2"
        THEN { <<"instance_name", Str(s_web)>>, <<"instance_name", Str(s_zzz)>>,
               <<"instance_state", Str(s_running)>>, <<"instance_state", Str(s_stopped)>>,
               <<"instance_tags", Str(s_envprod_teamcore)>> }
        ELSE { <<"instance_name", Str(s_elb)>>, <<"instance_name", Str(s_zzz)>>,
               <<"instance_dns_name", Str(s_aws)>>, <<"instance_dns_name", Str(s_zzz)>>,
               <<"Scheme", Str(s_internal)>> }]

\* the keys a filter specification can have
FilterFields(res) == { p[1] : p \in FilterPairs[res] }

\* the orders in which the items of a specification can be iterated: the
\* sequences of pairs with distinct keys
ParamSeqs ==
    [res \in ResourceTypes |->
        UNION { { p \in [1..n -> FilterPairs[res]] : \A i, j \in 1..n : i # j => p[i][1] # p[j][1] } :
                n \in 0..Cardinality(FilterFields(res)) }]

\* the further pairs a command line can put in search_filter
CliPairs ==
    [res \in ResourceTypes |->
        IF res = "ec2"
        THEN { <<"instance_id", Str(s_idash)>>, <<"instance_ip", Str(s_ten)>>,
               <<"instance_state", Str(s_terminated)>> }
        ELSE {}]

\* the outcomes of inst.match(field, value) for the pairs of the filter
\* specifications, computed once per record and pair
MatchOutcomes ==
    [res \in ResourceTypes |->
        [id \in RecordIds(res) |->
            [p \in FilterPairs[res] \cup CliPairs[res] |-> match(res, id, p[1], p[2])]]]

(***************************************************************************)
(* SearchAWSResources.filter.  search_params is given as the sequence of   *)
(* (field, value) pairs in the order search_params.items() yields them.    *)
(***************************************************************************)
\* an intersection that puts each kept record in front of the ones kept
\* before it (insert(0, instance) for append(instance))
RECURSIVE filter_intersect_prepend(_, _)
filter_intersect_prepend(final_results, results) ==
    IF Len(final_results) = 0 THEN <<>>
    ELSE LET instance == Head(final_results)
             rest == filter_intersect_prepend(Tail(final_results), results)
         IN IF \E j \in 1..Len(results) : results[j] = instance
            THEN rest \o <<instance>> ELSE rest

\* lines 171-175: the records of final_results that are in results, in the
\* order of final_results; "in" compares record objects
filter_intersect(final_results, results) ==
    SelectSeq(final_results, LAMBDA instance : \E j \in 1..Len(results) : results[j] = instance)

\* the search classes of search.py and the record type each one fetches
SearchClasses == {"SearchEc2Instances", "SearchElbInstances"}
record_type(cls) == IF cls = "SearchEc2Instances" THEN "ec2" ELSE "elb"

\* the cells _print_table_format computes for the records, row by row, up
\* to the first one whose computation raises
search_table_cells(cls, records, verbose) ==
    LET fields == search_get_printable_fields(cls, verbose)
        width == Len(fields)
    IN [n \in 1..(Len(records) * width) |->
           search_get_field_printable_value(cls, Record(record_type(cls), records[((n - 1) \div width) + 1]),
                                            fields[((n - 1) % width) + 1].name)]

\* line 217: the header row of table_data, the printable names of the
\* printable fields
search_table_header(cls, verbose) ==
    LET printable_fields == search_get_printable_fields(cls, verbose)
    IN [j \in 1..Len(printable_fields) |-> printable_fields[j].printable_name]

\* lines 218-222: the rows table_data gets after the header, one
\* instance_data per record of self.instances, made of the cells computed
search_table_rows(cls, records, verbose, cells) ==
    LET width == Len(search_get_printable_fields(cls, verbose))
    IN [i \in 1..Len(records) |-> [j \in 1..width |-> cells[((i - 1) * width) + j].val]]

\* the outcomes of inst.match(field, value) for the records a search object
\* of search.py holds, computed once per record and pair
SearchOutcomes ==
    [cls \in SearchClasses |->
        [id \in RecordIds(record_type(cls)) |->
            [p \in FilterPairs[record_type(cls)] \cup CliPairs[record_type(cls)] |->
                IF cls = "SearchEc2Instances"
                THEN search_Ec2Instance_match(Record("ec2", id), p[1], p[2])
                ELSE search_ElbInstance_match(Record("elb", id), p[1], p[2])]]]

\* line 167: the outcomes of inst.match(field, value) for the records of
\* self.instances (records), in order; res is a record type for a
\* collection of the records of instances.py, a search class for the
\* collection a search object fetched
filter_outcomes(res, records, field, value) ==
    [k \in 1..Len(records) |->
        IF res \in SearchClasses THEN SearchOutcomes[res][records[k]][<<field, value>>]
        ELSE MatchOutcomes[res][records[k]][<<field, value>>]]

\* line 167: [inst for inst in self.instances if inst.match(field, value)]
filter_results(records, outs) ==
    LET kept == SelectSeq([k \in 1..Len(records) |-> k], LAMBDA k : matched(outs[k]))
    IN [i \in 1..Len(kept) |-> records[kept[i]]]

\* the position of the first match call of line 167 that raises, 0 if none
filter_raising(outs) ==
    LET raising == { k \in 1..Len(outs) : outs[k].exc # "none" }
    IN IF raising = {} THEN 0 ELSE CHOOSE k \in raising : \A j \in raising : k <= j

\* lines 166-178: the loop over search_params.items() from pair i on;
\* an exception leaves filter before line 179
RECURSIVE filter_loop(_, _, _, _, _, _)
filter_loop(res, records, search_params, i, final_results, calls) ==
    IF i > Len(search_params)
    THEN [exc |-> "none", result |-> final_results, calls |-> calls]
    ELSE LET outs == filter_outcomes(res, records, search_params[i][1], search_params[i][2])
             raising == filter_raising(outs)
             results == filter_results(records, outs)
         IN IF raising # 0
            THEN [exc |-> outs[raising].exc, result |-> records, calls |-> calls + raising]
            ELSE filter_loop(res, records, search_params, i + 1,
                             IF Len(final_results) # 0
                             THEN filter_intersect(final_results, results)
                             ELSE results,
                             calls + Len(records))

\* filter without the early return of lines 162-163
filter_without_early_return(res, records, search_params) ==
    filter_loop(res, records, search_params, 1, <<>>, 0)

\* a filter that narrows the list it was given instead of building new ones
filter_list_after_in_place(res, records, search_params) ==
    filter_loop(res, records, search_params, 1, <<>>, 0).result

\* the content, when filter(search_params) is over, of the list object
\* self.instances referred to when it was called (records): the call reads
\* it at line 167 and puts what it keeps in lists of its own (lines 165,
\* 167, 171-175), so no statement adds to it or removes from it
filter_list_after(res, records, search_params) == records

\* filter(search_params): the outcome, the value of self.instances after
\* the call and the number of match calls made
SearchAWSResources_filter(res, records, search_params) ==
    IF Len(search_params) = 0
    THEN [exc |-> "none", result |-> records, calls |-> 0]
    ELSE filter_loop(res, records, search_params, 1, <<>>, 0)

(***************************************************************************)
(* The state: one search object (SearchEc2Instances or SearchElbInstances) *)
(* after construction, and a record of the last call made on it or on one  *)
(* of its records.                                                         *)
(***************************************************************************)
VARIABLES
    resource,    \* the class of the search object: "ec2" or "elb"
    fetched,     \* the collection _get_instances returned at construction
    instances,   \* self.instances: a sequence of record identities
    lastFilter,  \* the last filter() call: collection before, pairs, outcome
    lastMatch,   \* the last match() call made directly on a record
    lastGet,     \* the last record[item] lookup made directly on a record
    lastRender,  \* the last get_field_printable_value call
    \* one run of cli.main
    pc,            \* the step main() is at; "none" when no run is modelled
    config,        \* the state of ~/.aws-search.yml: an index of Configs
    credentials,   \* what a session of each account's profile meets
    argv,          \* the command line: an index of CommandLines
    conf,          \* main's conf
    args,          \* main's args
    search_filter, \* main's search_filter: its items in insertion order
    output,        \* what the run has printed, in order
    displayed,     \* the records print_instances has put in the table
    table_data,    \* the table print_instances has printed: header and rows
    exit_status,   \* the exit status, -1 while the run goes on
    uncaught,      \* the exception that ended the run, "none" if none
    steps,         \* the steps the run has made, in order
    fetches        \* the (account, region) fetches made, in order

mainVars == <<pc, config, credentials, argv, conf, args, search_filter, output, displayed,
              table_data, exit_status, uncaught, steps, fetches>>

vars == <<resource, fetched, instances, lastFilter, lastMatch, lastGet, lastRender, mainVars>>

NoFilter == [op |-> "none", before |-> <<>>, params |-> <<>>, exc |-> "none", calls |-> 0,
             old |-> <<>>]
NoMatch == [op |-> "none", id |-> 0, field |-> "", value |-> None, exc |-> "none", ret |-> None]
NoGet == [op |-> "none", id |-> 0, item |-> "", exc |-> "none", ret |-> None]
NoRender == [op |-> "none", id |-> 0, field_name |-> "", print_format |-> "",
             exc |-> "none", ret |-> None]

\* the collections construction can build: distinct record objects
Collections ==
    [res \in ResourceTypes |->
        UNION { { c \in [1..n -> RecordIds(res)] : \A i, j \in 1..n : i # j => c[i] # c[j] } :
                n \in 0..MaxRecs }]

\* the (attribute, value) pairs of the direct match() calls: the pairs of
\* the filter specifications, then values in another case, lists for the
\* matchers documented to take a list, and attributes outside match_methods
MatchPairs ==
    [res \in ResourceTypes |->
        IF res = "ec2"
        THEN << <<"instance_name", Str(s_web)>>, <<"instance_name", Str(s_zzz)>>,
                <<"instance_state", Str(s_running)>>, <<"instance_state", Str(s_stopped)>>,
                <<"instance_tags", Str(s_envprod_teamcore)>>,
                <<"instance_name", Str(s_WEB)>>, <<"instance_state", Str(s_run)>>,
                <<"instance_tags", Str(s_ev)>>, <<"instance_tags", Str(s_envprod)>>,
                <<"instance_tags", List(<<Str(s_envprod), Str(s_teamcore)>>)>>,
                <<"instance_tags", List(<<Str(s_envprod), Str(s_envprod)>>)>>,
                <<"instance_id", Str(s_idash)>>, <<"instance_ip", Str(s_ten)>>,
                <<"instance_sg", List(<<Str(s_web), Str(s_sg2)>>)>>,
                <<"instance_sg", List(<<Str(s_sg), Str(s_sg)>>)>>,
                <<"instance_dns_name", Str(s_aws)>>,
                <<"InstanceType", Str(s_t2)>>,
                <<"AmiLaunchIndex", Str(s_zzz)>>, <<"State", Str(s_run)>>,
                <<"Tags", Str(s_web)>>, <<"NoSuchField", Str(s_web)>>,
                <<"instance_placement", Str(s_zone)>>,
                <<"instance_state", Str(s_Running)>>,
                <<"instance_sg", List(<<Str(s_WEB), Str(s_zzz)>>)>>,
                <<"instance_sg", List(<<Str(s_db)>>)>> >>
        ELSE << <<"instance_name", Str(s_elb)>>, <<"instance_name", Str(s_zzz)>>,
                <<"instance_dns_name", Str(s_aws)>>, <<"instance_dns_name", Str(s_zzz)>>,
                <<"Scheme", Str(s_internal)>>,
                <<"instance_name", Str(s_ELB2)>>, <<"Instances", Str(s_i1)>>,
                <<"NoSuchField", Str(s_elb)>>, <<"aws_account", Str(s_qa)>> >>]

\* the outcomes of the direct match() calls, computed once per record and pair
DirectOutcomes ==
    [res \in ResourceTypes |->
        [id \in RecordIds(res) |->
            [n \in 1..Len(MatchPairs[res]) |->
                match(res, id, MatchPairs[res][n][1], MatchPairs[res][n][2])]]]

\* the item names of the direct lookups
Items ==
    [res \in ResourceTypes |->
        {"aws_account", "Name", "instance_name", "instance_placement", "NoSuchField"} \cup
        (IF res = "ec2" THEN {"Tags", "State", "InstanceId", "PublicIpAddress"}
         ELSE {"LoadBalancerName", "DNSName", "Instances"})]

\* the field names of the direct get_field_printable_value calls: the
\* fields of the class's instance_fields and a name outside them
RenderFields ==
    [res \in ResourceTypes |->
        {"NoSuchField"} \cup
        (IF res = "ec2"
         THEN { Ec2Instance_instance_fields[i].name : i \in DOMAIN Ec2Instance_instance_fields }
         ELSE { ElbInstance_instance_fields[i].name : i \in DOMAIN ElbInstance_instance_fields })]

\* the print formats of the calls: the two the formatters know and one they
\* do not
PrintFormats == {"table", "json", "long"}

\* the outcomes of the direct get_field_printable_value calls, computed once
\* per record, field name and print format
RenderOutcomes ==
    [res \in ResourceTypes |->
        [id \in RecordIds(res) |->
            [field_name \in RenderFields[res] |->
                [print_format \in PrintFormats |->
                    get_field_printable_value(res, id, field_name, print_format)]]]]

\* no table has been printed
NoTable == [header |-> <<>>, rows |-> <<>>]
NoConf == [aws_accounts |-> <<>>, aws_regions |-> <<>>]
NoArgs == [resource |-> "none"]

\* no run of main: a search object used directly
NoMain ==
    /\ pc = "none"
    /\ config = 0
    /\ credentials = <<>>
    /\ argv = 0
    /\ conf = NoConf
    /\ args = NoArgs
    /\ search_filter = <<>>
    /\ output = <<>>
    /\ displayed = <<>>
    /\ table_data = NoTable
    /\ exit_status = -1
    /\ uncaught = "none"
    /\ steps = <<>>
    /\ fetches = <<>>

Init ==
    /\ resource \in ResourceTypes
    /\ fetched \in Collections[resource]
    /\ instances = fetched
    /\ lastFilter = NoFilter
    /\ lastMatch = NoMatch
    /\ lastGet = NoGet
    /\ lastRender = NoRender
    /\ NoMain

\* instances.filter(search_params)
Filter(search_params) ==
    LET r == SearchAWSResources_filter(resource, instances, search_params) IN
    /\ instances' = r.result
    /\ lastFilter' = [op |-> "filter", before |-> instances, params |-> search_params,
                      exc |-> r.exc, calls |-> r.calls,
                      old |-> filter_list_after(resource, instances, search_params)]
    /\ lastMatch' = NoMatch
    /\ lastGet' = NoGet
    /\ lastRender' = NoRender
    /\ UNCHANGED <<resource, fetched, mainVars>>

\* inst.match(field, value) on record k of the collection, for pair n of
\* MatchPairs
Match(k, n) ==
    LET out == DirectOutcomes[resource][instances[k]][n] IN
    /\ lastMatch' = [op |-> "match", id |-> instances[k],
                     field |-> MatchPairs[resource][n][1], value |-> MatchPairs[resource][n][2],
                     exc |-> out.exc, ret |-> out.val]
    /\ lastFilter' = NoFilter
    /\ lastGet' = NoGet
    /\ lastRender' = NoRender
    /\ UNCHANGED <<resource, fetched, instances, mainVars>>

\* inst[item] on a record of the collection
GetItem(k, item) ==
    LET out == getitem(resource, instances[k], item) IN
    /\ lastGet' = [op |-> "getitem", id |-> instances[k], item |-> item,
                   exc |-> out.exc, ret |-> out.val]
    /\ lastFilter' = NoFilter
    /\ lastMatch' = NoMatch
    /\ lastRender' = NoRender
    /\ UNCHANGED <<resource, fetched, instances, mainVars>>

\* get_field_printable_value(inst, field_name, print_format) on a record of
\* the collection
Render(k, field_name, print_format) ==
    LET out == RenderOutcomes[resource][instances[k]][field_name][print_format] IN
    /\ lastRender' = [op |-> "render", id |-> instances[k], field_name |-> field_name,
                      print_format |-> print_format, exc |-> out.exc, ret |-> out.val]
    /\ lastFilter' = NoFilter
    /\ lastMatch' = NoMatch
    /\ lastGet' = NoGet
    /\ UNCHANGED <<resource, fetched, instances, mainVars>>

Next ==
    \/ \E search_params \in ParamSeqs[resource] : Filter(search_params)
    \/ \E k \in 1..Len(instances), n \in 1..Len(MatchPairs[resource]) : Match(k, n)
    \/ \E k \in 1..Len(instances), item \in Items[resource] : GetItem(k, item)
    \/ \E k \in 1..Len(instances), field_name \in RenderFields[resource],
           print_format \in PrintFormats : Render(k, field_name, print_format)

Spec == Init /\ [][Next]_vars

(***************************************************************************)
(* cli.py: the configuration file, the command line and the credentials a  *)
(* run of main() meets                                                     *)
(***************************************************************************)
Accounts == {s_prod, s_qa}

\* what a session of an account's profile meets
CredentialStates == {"ok", "ProfileNotFound", "NoCredentialsError"}

\* ~/.aws-search.yml: missing, not YAML, or a mapping with the two lists
Configs == <<
    [file |-> "missing", aws_accounts |-> <<>>, aws_regions |-> <<>>],
    [file |-> "invalid", aws_accounts |-> <<>>, aws_regions |-> <<>>],
    [file |-> "ok", aws_accounts |-> <<s_prod, s_qa>>, aws_regions |-> <<s_useast1, s_uswest2>>],
    [file |-> "ok", aws_accounts |-> <<s_qa, s_prod>>, aws_regions |-> <<s_useast1>>]
>>

\* a command line without options and sub-command; resource is the
\* sub-command word, "none" when there is none
NoOptions ==
    [version |-> FALSE, account |-> None, region |-> None, verbose |-> FALSE, resource |-> "none",
     name |-> None, id |-> None, tags |-> None, ip |-> None, state |-> None, dns |-> None]

CommandLines == <<
    [NoOptions EXCEPT !.resource = "ec2"],
    [NoOptions EXCEPT !.resource = "ec2", !.name = Str(s_web), !.state = Str(s_stopped)],
    [NoOptions EXCEPT !.resource = "ec2", !.name = Str(s_zzz)],
    [NoOptions EXCEPT !.resource = "ec2", !.tags = Str(s_envprod_teamcore), !.ip = Str(s_ten),
                      !.id = Str(s_idash), !.verbose = TRUE],
    [NoOptions EXCEPT !.resource = "ec2", !.name = Str(s_empty)],
    [NoOptions EXCEPT !.resource = "ec2", !.state = Str(s_run)],
    [NoOptions EXCEPT !.resource = "ec2", !.state = Str(s_terminated), !.account = Str(s_qa)],
    [NoOptions EXCEPT !.resource = "ec2", !.dns = Str(s_aws)],
    [NoOptions EXCEPT !.resource = "elb"],
    [NoOptions EXCEPT !.resource = "elb", !.name = Str(s_elb), !.dns = Str(s_aws),
                      !.region = Str(s_uswest2), !.verbose = TRUE],
    [NoOptions EXCEPT !.resource = "elb", !.name = Str(s_zzz), !.account = Str(s_prod),
                      !.region = Str(s_useast1)],
    [NoOptions EXCEPT !.resource = "elb", !.ip = Str(s_ten)],
    NoOptions,
    [NoOptions EXCEPT !.account = Str(s_qa), !.verbose = TRUE],
    [NoOptions EXCEPT !.resource = "s3"],
    [NoOptions EXCEPT !.version = TRUE]
>>

msg_configure == "please configure ~/.aws-search.yml"
\* the first line of the message of lines 116-119
msg_credentials ==
    "There was an issue matching the accounts in ~/.awssearch.yml with the account profiles in ~/.aws/credentials"
msg_unsupported == "unsupported AWS resource: None"

\* parse_config that answers a missing file with an empty configuration
parse_config_defaulting(cf) ==
    IF cf.file = "missing"
    THEN [exc |-> "none", message |-> "", val |-> [aws_accounts |-> <<>>, aws_regions |-> <<>>]]
    ELSE IF cf.file = "invalid" THEN [exc |-> "YAMLError", message |-> "", val |-> NoConf]
    ELSE [exc |-> "none", message |-> "",
          val |-> [aws_accounts |-> cf.aws_accounts, aws_regions |-> cf.aws_regions]]

\* parse_config: open() raises IOError for a missing file, and it is raised
\* again with the remediation message; yaml.load raises for a file that is
\* not YAML
parse_config(cf) ==
    IF cf.file = "missing" THEN [exc |-> "IOError", message |-> msg_configure, val |-> NoConf]
    ELSE IF cf.file = "invalid" THEN [exc |-> "YAMLError", message |-> "", val |-> NoConf]
    ELSE [exc |-> "none", message |-> "",
          val |-> [aws_accounts |-> cf.aws_accounts, aws_regions |-> cf.aws_regions]]

\* the command line is one the parser rejects: an unknown sub-command, an
\* option of another sub-command, a state outside the choices and, where
\* the parser requires a sub-command (required), none at all
parse_error(cl, required) ==
    \/ cl.resource \notin {"ec2", "elb", "none"}
    \/ /\ cl.resource = "none"
       /\ \/ required
          \/ \E opt \in {"name", "id", "tags", "ip", "state", "dns"} : cl[opt].t # "none"
    \/ /\ cl.resource = "ec2"
       /\ \/ cl.dns.t # "none"
          \/ cl.state.t # "none" /\ cl.state.v \notin {s_running, s_stopped, s_terminated}
    \/ /\ cl.resource = "elb"
       /\ \E opt \in {"id", "tags", "ip", "state"} : cl[opt].t # "none"

\* the namespace parse_args returns: the top-level options with their
\* defaults and the options of the sub-command given
parse_namespace(cl) ==
    LET top == [aws_account |-> IF cl.account.t = "none" THEN Str(s_all) ELSE cl.account,
                aws_regions |-> IF cl.region.t = "none" THEN Str(s_all) ELSE cl.region,
                verbose |-> cl.verbose,
                resource |-> cl.resource]
    IN IF cl.resource = "ec2"
       THEN top @@ [instance_id |-> cl.id, instance_ip |-> cl.ip, instance_name |-> cl.name,
                    instance_state |-> IF cl.state.t = "none" THEN Str(s_running) ELSE cl.state,
                    instance_tags |-> cl.tags]
       ELSE IF cl.resource = "elb"
       THEN top @@ [instance_dns_name |-> cl.dns, instance_name |-> cl.name]
       ELSE top

\* parse_commandline_args: --version prints the version and exits with 0,
\* a rejected command line prints the usage and exits with 2
parse_commandline_args(cl, required) ==
    IF cl.version THEN [exit |-> 0, message |-> "version", val |-> NoArgs]
    ELSE IF parse_error(cl, required) THEN [exit |-> 2, message |-> "usage", val |-> NoArgs]
    ELSE [exit |-> -1, message |-> "", val |-> parse_namespace(cl)]

\* lines 79-87: aws_accounts and aws_regions
main_aws_accounts(ns, cf) ==
    IF ns.aws_account.v = s_all THEN cf.aws_accounts ELSE <<ns.aws_account.v>>
main_aws_regions(ns, cf) ==
    IF ns.aws_regions.v = s_all THEN cf.aws_regions ELSE <<ns.aws_regions.v>>

\* the item search_filter.update({key: ns[key]}) adds when the condition
\* of its if holds
filter_item(ns, key) == IF truthy(ns[key]) THEN << <<key, ns[key]>> >> ELSE <<>>

\* search_filter without the update of line 102
main_search_filter_state_optional(ns) ==
    IF ns.resource = "ec2"
    THEN filter_item(ns, "instance_name") \o filter_item(ns, "instance_id") \o
         filter_item(ns, "instance_tags") \o filter_item(ns, "instance_ip")
    ELSE IF ns.resource = "elb"
    THEN filter_item(ns, "instance_name") \o filter_item(ns, "instance_dns_name")
    ELSE <<>>

\* lines 89-109: the items of search_filter in the order they are added
main_search_filter(ns) ==
    IF ns.resource = "ec2"
    THEN filter_item(ns, "instance_name") \o filter_item(ns, "instance_id") \o
         filter_item(ns, "instance_tags") \o filter_item(ns, "instance_ip") \o
         << <<"instance_state", ns.instance_state>> >>
    ELSE IF ns.resource = "elb"
    THEN filter_item(ns, "instance_name") \o filter_item(ns, "instance_dns_name")
    ELSE <<>>

\* a main that searches EC2 instances when the resource is not one it knows
main_resource_type_defaulting(ns) ==
    IF ns.resource = "elb" THEN "SearchElbInstances" ELSE "SearchEc2Instances"

\* lines 91-111: the class aws_resource_type is bound to; the else branch
\* binds nothing
main_resource_type(ns) ==
    IF ns.resource = "ec2" THEN "SearchEc2Instances"
    ELSE IF ns.resource = "elb" THEN "SearchElbInstances"
    ELSE "unbound"

\* an except clause for ProfileNotFound alone
main_except_profile_only(exc) == exc = "ProfileNotFound"

\* line 115: the exceptions the except clause around the construction names
main_except(exc) == exc \in {"ProfileNotFound", "NoCredentialsError"}

\* the loops of _get_instances with the regions outside
fetch_pairs_region_major(accounts, regions) ==
    [n \in 1..(Len(accounts) * Len(regions)) |->
        <<accounts[((n - 1) % Len(accounts)) + 1], regions[((n - 1) \div Len(accounts)) + 1]>>]

\* "for account in self.aws_accounts: for region in self.aws_regions": the
\* (account, region) pairs in the order the two loops visit them
fetch_pairs(accounts, regions) ==
    [n \in 1..(Len(accounts) * Len(regions)) |->
        <<accounts[((n - 1) \div Len(regions)) + 1], regions[((n - 1) % Len(regions)) + 1]>>]

\* the records the provider can answer a fetch of the class for the account
\* with: the EC2 request asks for the running instances that have a Name
\* tag, the ELB request for all load balancers
ProviderRecords(cls, account) ==
    { id \in RecordIds(record_type(cls)) :
        LET self == Record(record_type(cls), id) IN
        /\ self.aws_account.v = account
        /\ cls = "SearchEc2Instances" =>
              /\ "State" \in DOMAIN self.instance
              /\ self.instance.State.v["Name"].v = s_running
              /\ Ec2Instance_get_name(self).val.t = "str" }

\* the answers to one fetch: up to MaxFetch distinct records of ids, in any
\* order
Answers(ids) ==
    UNION { { a \in [1..n -> ids] : \A i, j \in 1..n : i # j => a[i] # a[j] } : n \in 0..MaxFetch }

\* the orders a dict can yield the items of search_filter in
ItemOrders(items) ==
    { [i \in 1..Len(items) |-> items[f[i]]] :
        f \in { g \in [1..Len(items) -> 1..Len(items)] : \A i, j \in 1..Len(items) : i # j => g[i] # g[j] } }

(***************************************************************************)
(* cli.py: main().  One run, from parse_config() to the exit of the        *)
(* process.                                                                *)
(***************************************************************************)
MainInit ==
    /\ pc = "parse_config"
    /\ config \in DOMAIN Configs
    /\ credentials \in [Accounts -> CredentialStates]
    /\ argv \in DOMAIN CommandLines
    /\ conf = NoConf
    /\ args = NoArgs
    /\ search_filter = <<>>
    /\ output = <<>>
    /\ displayed = <<>>
    /\ table_data = NoTable
    /\ exit_status = -1
    /\ uncaught = "none"
    /\ steps = <<>>
    /\ fetches = <<>>
    /\ resource = "unbound"
    /\ fetched = <<>>
    /\ instances = <<>>
    /\ lastFilter = NoFilter
    /\ lastMatch = NoMatch
    /\ lastGet = NoGet
    /\ lastRender = NoRender

\* an exception nothing catches ends the run: the traceback, which ends
\* with the exception's message, is printed and the exit status is 1
Crash(exc, message) ==
    /\ pc' = "exited"
    /\ uncaught' = exc
    /\ output' = Append(output, message)
    /\ exit_status' = 1

\* line 76: conf = parse_config()
ParseConfig ==
    /\ pc = "parse_config"
    /\ steps' = Append(steps, "parse_config")
    /\ \E out \in {parse_config(Configs[config])} :
       IF out.exc # "none"
       THEN Crash(out.exc, out.message) /\ UNCHANGED conf
       ELSE /\ conf' = out.val
            /\ pc' = "parse_args"
            /\ UNCHANGED <<output, exit_status, uncaught>>
    /\ UNCHANGED <<resource, fetched, instances, lastFilter, lastMatch, lastGet, lastRender,
                   config, credentials, argv, args, search_filter, displayed, table_data, fetches>>

\* line 77: args = parse_commandline_args(); whether the parser requires a
\* sub-command depends on the interpreter
ParseArgs ==
    /\ pc = "parse_args"
    /\ steps' = Append(steps, "parse_commandline_args")
    /\ \E required \in BOOLEAN :
         \E out \in {parse_commandline_args(CommandLines[argv], required)} :
         IF out.exit # -1
         THEN /\ pc' = "exited"
              /\ exit_status' = out.exit
              /\ output' = Append(output, out.message)
              /\ UNCHANGED args
         ELSE /\ args' = out.val
              /\ pc' = "build"
              /\ UNCHANGED <<output, exit_status>>
    /\ UNCHANGED <<resource, fetched, instances, lastFilter, lastMatch, lastGet, lastRender,
                   config, credentials, argv, conf, search_filter, displayed, table_data, uncaught, fetches>>

\* lines 79-111: the accounts, the regions, search_filter and the class
BuildFilter ==
    /\ pc = "build"
    /\ search_filter' = main_search_filter(args)
    /\ resource' = main_resource_type(args)
    /\ output' = IF args.resource \notin {"ec2", "elb"} THEN Append(output, msg_unsupported)
                 ELSE output
    /\ pc' = "construct"
    /\ UNCHANGED <<fetched, instances, lastFilter, lastMatch, lastGet, lastRender,
                   config, credentials, argv, conf, args, displayed, table_data, exit_status, uncaught, steps, fetches>>

\* line 114 with aws_resource_type unbound
Unbound ==
    /\ pc = "construct"
    /\ resource = "unbound"
    /\ Crash("UnboundLocalError", "aws_resource_type referenced before assignment")
    /\ UNCHANGED <<resource, fetched, instances, lastFilter, lastMatch, lastGet, lastRender,
                   config, credentials, argv, conf, args, search_filter, displayed, table_data, steps, fetches>>

\* the pairs the constructor called at line 114 visits
Pairs == fetch_pairs(main_aws_accounts(args, conf), main_aws_regions(args, conf))

\* one turn of the inner loop of _get_instances: the session of the pair's
\* account gets an answer, and the records are appended to all_instances
Fetch(answer) ==
    /\ pc = "construct"
    /\ resource # "unbound"
    /\ Len(fetches) < Len(Pairs)
    /\ \E pair \in {Pairs[Len(fetches) + 1]} :
       /\ credentials[pair[1]] = "ok"
       /\ answer \in Answers(ProviderRecords(resource, pair[1]) \ { fetched[i] : i \in DOMAIN fetched })
       /\ fetches' = Append(fetches, [account |-> pair[1], region |-> pair[2], exc |-> "none",
                                      records |-> answer])
    /\ fetched' = fetched \o answer
    /\ UNCHANGED <<resource, instances, lastFilter, lastMatch, lastGet, lastRender,
                   config, credentials, argv, conf, args, search_filter, output, displayed, table_data,
                   exit_status, uncaught, steps, pc>>

\* one turn of the inner loop in which the session or its request raises:
\* the constructor is left, and lines 115-120 print the guidance and exit
FetchFails ==
    /\ pc = "construct"
    /\ resource # "unbound"
    /\ Len(fetches) < Len(Pairs)
    /\ \E pair \in {Pairs[Len(fetches) + 1]} :
       \E exc \in {credentials[pair[1]]} :
          /\ exc # "ok"
          /\ fetches' = Append(fetches, [account |-> pair[1], region |-> pair[2], exc |-> exc,
                                         records |-> <<>>])
          /\ IF main_except(exc)
             THEN /\ pc' = "exited"
                  /\ output' = Append(output, msg_credentials)
                  /\ exit_status' = 1
                  /\ UNCHANGED uncaught
             ELSE Crash(exc, "")
    /\ UNCHANGED <<resource, fetched, instances, lastFilter, lastMatch, lastGet, lastRender,
                   config, credentials, argv, conf, args, search_filter, displayed, table_data, steps>>

\* the loops are done: _get_instances returns all_instances and line 114
\* binds the search object
Constructed ==
    /\ pc = "construct"
    /\ resource # "unbound"
    /\ Len(fetches) = Len(Pairs)
    /\ instances' = fetched
    /\ pc' = "filter"
    /\ UNCHANGED <<resource, fetched, lastFilter, lastMatch, lastGet, lastRender,
                   config, credentials, argv, conf, args, search_filter, output, displayed, table_data,
                   exit_status, uncaught, steps, fetches>>

\* line 121: instances.filter(search_filter), the dict yielding its items
\* in the order search_params
RunFilter(search_params) ==
    /\ pc = "filter"
    /\ search_params \in ItemOrders(search_filter)
    /\ steps' = Append(steps, "filter")
    /\ \E r \in {SearchAWSResources_filter(resource, instances, search_params)} :
       /\ lastFilter' = [op |-> "filter", before |-> instances, params |-> search_params,
                         exc |-> r.exc, calls |-> r.calls,
                         old |-> filter_list_after(resource, instances, search_params)]
       /\ instances' = r.result
       /\ IF r.exc # "none" THEN Crash(r.exc, "")
          ELSE pc' = "print" /\ UNCHANGED <<output, exit_status, uncaught>>
    /\ UNCHANGED <<resource, fetched, lastMatch, lastGet, lastRender,
                   config, credentials, argv, conf, args, search_filter, displayed, table_data, fetches>>

\* lines 122-124: instances.print_instances(verbose=args.verbose).  The
\* field list is printed, then the cells are computed row by row, then the
\* table is built and printed; whether the table library takes a cell that
\* is not a string (converts) depends on its version
PrintInstances(converts) ==
    /\ pc = "print"
    /\ steps' = Append(steps, "print_instances")
    /\ \E cells \in {search_table_cells(resource, instances, args.verbose)} :
       LET raising == { n \in DOMAIN cells : cells[n].exc # "none" }
           first == CHOOSE n \in raising : \A m \in raising : n <= m
       IN IF raising # {}
          THEN /\ pc' = "exited"
               /\ uncaught' = cells[first].exc
               /\ output' = output \o <<"printable_fields", "">>
               /\ exit_status' = 1
               /\ UNCHANGED <<displayed, table_data>>
          ELSE IF ~converts /\ \E n \in DOMAIN cells : cells[n].val.t # "str"
          THEN /\ pc' = "exited"
               /\ uncaught' = "AttributeError"
               /\ output' = output \o <<"printable_fields", "">>
               /\ exit_status' = 1
               /\ UNCHANGED <<displayed, table_data>>
          ELSE /\ pc' = "exited"
               /\ output' = output \o <<"printable_fields", "table">>
               /\ displayed' = instances
               /\ table_data' = [header |-> search_table_header(resource, args.verbose),
                                 rows |-> search_table_rows(resource, instances, args.verbose, cells)]
               /\ exit_status' = 0
               /\ UNCHANGED uncaught
    /\ UNCHANGED <<resource, fetched, instances, lastFilter, lastMatch, lastGet, lastRender,
                   config, credentials, argv, conf, args, search_filter, fetches>>

MainNext ==
    \/ ParseConfig
    \/ ParseArgs
    \/ BuildFilter
    \/ Unbound
    \/ \E answer \in Answers(RecordIds("ec2")) : Fetch(answer)
    \/ FetchFails
    \/ Constructed
    \/ \E search_params \in ItemOrders(search_filter) : RunFilter(search_params)
    \/ \E converts \in BOOLEAN : PrintInstances(converts)

MainSpec == MainInit /\ [][MainNext]_vars

(***************************************************************************)
(* search.py: main().  The run of the module's own entry point from the    *)
(* constructed search object on: one filter() with the pairs the command   *)
(* line gave, then print_instances().                                      *)
(***************************************************************************)

\* the collections a search object of the class can hold after construction
SearchCollections ==
    [cls \in SearchClasses |->
        LET ids == UNION { ProviderRecords(cls, account) : account \in Accounts }
        IN UNION { { a \in [1..n -> ids] : \A i, j \in 1..n : i # j => a[i] # a[j] } :
                   n \in 0..MaxRecs }]

\* lines 503-521: the values the command line can give each key of
\* search_filter, in the order main() inserts the keys
SearchOptions ==
    [cls \in SearchClasses |->
        IF cls = "SearchEc2Instances"
        THEN << <<"instance_name", {Str(s_web), Str(s_zzz)}>>,
                <<"instance_id", {Str(s_idash)}>>,
                <<"instance_tags", {Str(s_envprod_teamcore)}>>,
                <<"instance_ip", {Str(s_ten)}>> >>
        ELSE << <<"instance_name", {Str(s_elb), Str(s_zzz)}>>,
                <<"instance_dns_name", {Str(s_aws), Str(s_zzz)}>> >>]

\* lines 501-521: the search_filter main() can build for the class
SearchFilters ==
    [cls \in SearchClasses |->
        { items \in UNION { [1..n -> FilterPairs[record_type(cls)] \cup CliPairs[record_type(cls)]] :
                            n \in 0..Len(SearchOptions[cls]) } :
            /\ \A i \in DOMAIN items :
                  \E k \in DOMAIN SearchOptions[cls] :
                      /\ items[i][1] = SearchOptions[cls][k][1]
                      /\ items[i][2] \in SearchOptions[cls][k][2]
            /\ \A i, j \in DOMAIN items :
                  i < j => \E k, l \in DOMAIN SearchOptions[cls] :
                              /\ k < l
                              /\ items[i][1] = SearchOptions[cls][k][1]
                              /\ items[j][1] = SearchOptions[cls][l][1] }]

\* lines 486-523: the search object is constructed and search_filter built
SearchMainInit ==
    /\ pc = "filter"
    /\ resource \in SearchClasses
    /\ fetched \in SearchCollections[resource]
    /\ instances = fetched
    /\ search_filter \in SearchFilters[resource]
    /\ \E v \in BOOLEAN : args = [resource |-> record_type(resource), verbose |-> v]
    /\ config = 0
    /\ credentials = <<>>
    /\ argv = 0
    /\ conf = NoConf
    /\ output = <<>>
    /\ displayed = <<>>
    /\ table_data = NoTable
    /\ exit_status = -1
    /\ uncaught = "none"
    /\ steps = <<>>
    /\ fetches = <<>>
    /\ lastFilter = NoFilter
    /\ lastMatch = NoMatch
    /\ lastGet = NoGet
    /\ lastRender = NoRender

\* lines 525-528: instances.filter(search_filter), then
\* instances.print_instances(verbose=args.verbose)
SearchMainNext ==
    \/ \E search_params \in ItemOrders(search_filter) : RunFilter(search_params)
    \/ \E converts \in BOOLEAN : PrintInstances(converts)

SearchMainSpec == SearchMainInit /\ [][SearchMainNext]_vars

(***************************************************************************)
(* Properties                                                              *)
(***************************************************************************)
\* the last call was a filter() that returned
Filtered == lastFilter.op = "filter" /\ lastFilter.exc = "none"

\* pair i of the last filter specification matches record id
PairMatches(i, id) ==
    matched(match(resource, id, lastFilter.params[i][1], lastFilter.params[i][2]))

\* s is a subsequence of t: s is t with some elements left out
RECURSIVE IsSubsequence(_, _)
IsSubsequence(s, t) ==
    IF Len(s) = 0 THEN TRUE
    ELSE IF Len(t) = 0 THEN FALSE
    ELSE IF Head(s) = Head(t) THEN IsSubsequence(Tail(s), Tail(t))
    ELSE IsSubsequence(s, Tail(t))

\* C1: AND-composition.  One filter() call with the two pairs A and B leaves
\* the collection that filter(A) then filter(B) leaves, and that filter(B)
\* then filter(A) leaves: the records, in order, that both pairs match.
C1_AndComposition ==
    (Filtered /\ Len(lastFilter.params) = 2) =>
        LET A == <<lastFilter.params[1]>>
            B == <<lastFilter.params[2]>>
            a == SearchAWSResources_filter(resource, lastFilter.before, A).result
            b == SearchAWSResources_filter(resource, lastFilter.before, B).result
        IN /\ instances = SearchAWSResources_filter(resource, a, B).result
           /\ instances = SearchAWSResources_filter(resource, b, A).result
           /\ instances = SelectSeq(lastFilter.before,
                                    LAMBDA id : PairMatches(1, id) /\ PairMatches(2, id))

\* C2: empty-predicate short-circuit.  After a filter() call with two or more
\* pairs one of which matches no record of the collection, the collection is
\* empty.
C2_EmptyPredicate ==
    (/\ Filtered
     /\ Len(lastFilter.params) >= 2
     /\ \E i \in 1..Len(lastFilter.params) :
            \A k \in 1..Len(lastFilter.before) : ~PairMatches(i, lastFilter.before[k]))
    => instances = <<>>

\* C3: filter identity.  A filter() call with an empty specification returns,
\* leaves the collection as it was (same records, same order) and calls
\* match() on no record.
C3_FilterIdentity ==
    (lastFilter.op = "filter" /\ Len(lastFilter.params) = 0) =>
        /\ lastFilter.exc = "none"
        /\ instances = lastFilter.before
        /\ lastFilter.calls = 0

C3_Witness ==
    /\ lastFilter.op = "filter"
    /\ Len(lastFilter.params) = 0
    /\ Len(lastFilter.before) >= 2
    /\ instances = lastFilter.before

\* C4: order preservation.  After every filter() call the collection is a
\* subsequence of the collection before the call: the surviving records keep
\* their relative order, none is new and none is repeated.
C4_OrderPreserved ==
    lastFilter.op = "filter" => IsSubsequence(instances, lastFilter.before)

C4_Witness ==
    /\ Filtered
    /\ Len(lastFilter.params) = 2
    /\ Len(instances) >= 2
    /\ \A k \in 1..Len(instances) : PairMatches(1, instances[k]) /\ PairMatches(2, instances[k])

\* C5: key-order irrelevance.  The result of one filter() call on a collection
\* is the same for every order in which the pairs of the specification are
\* iterated.
C5_KeyOrder ==
    Filtered =>
        \A q \in ParamSeqs[resource] :
            (/\ Len(q) = Len(lastFilter.params)
             /\ \A i \in 1..Len(q) : \E j \in 1..Len(q) : q[i] = lastFilter.params[j])
            => SearchAWSResources_filter(resource, lastFilter.before, q).result = instances

\* the raw fields a match on the attribute reads; none for aws_account,
\* which is not a raw field
RelevantFields(res, attribute) ==
    CASE attribute = "aws_account" -> {}
      [] attribute = "instance_placement" -> {"Placement"}
      [] attribute = "instance_name" \/ attribute = "Name" ->
            IF res = "ec2" THEN {"Tags"} ELSE {"LoadBalancerName"}
      [] res = "ec2" /\ attribute = "instance_tags" -> {"Tags"}
      [] res = "ec2" /\ attribute = "instance_ip" -> {"PrivateIpAddress", "PublicIpAddress"}
      [] res = "ec2" /\ attribute = "instance_state" -> {"State"}
      [] res = "ec2" /\ attribute = "instance_id" -> {"InstanceId"}
      [] res = "ec2" /\ attribute = "instance_sg" -> {"SecurityGroups"}
      [] res = "elb" /\ attribute = "instance_dns_name" -> {"DNSName"}
      [] OTHER -> {attribute}

\* the last call was a direct match()
Matched == lastMatch.op = "match"

\* the last direct match() returned a true value
MatchHit == lastMatch.exc = "none" /\ truthy(lastMatch.ret)

\* C6: absent-field safety.  match() with a non-empty value on a record whose
\* relevant raw field is absent returns no-match and does not raise, for both
\* resource types and every attribute.
C6_AbsentFieldSafe ==
    (/\ Matched
     /\ Len(lastMatch.value.v) > 0
     /\ RelevantFields(resource, lastMatch.field) # {}
     /\ RelevantFields(resource, lastMatch.field) \cap
            DOMAIN Record(resource, lastMatch.id).instance = {})
    => (lastMatch.exc = "none" /\ ~MatchHit)

\* s.split(sep) for a one-character separator
RECURSIVE Split(_, _)
Split(s, sep) ==
    IF \A i \in 1..Len(s) : s[i] # sep THEN <<s>>
    ELSE LET i == CHOOSE i \in 1..Len(s) : s[i] = sep /\ \A j \in 1..(i - 1) : s[j] # sep
         IN <<SubSeq(s, 1, i - 1)>> \o Split(SubSeq(s, i + 1, Len(s)), sep)

\* the "key=value" forms of the tags of a compute record whose key is not "Name"
TagForms(self) ==
    IF "Tags" \in DOMAIN self.instance
    THEN { format_eq(self.instance["Tags"].v[i].v["Key"].v, self.instance["Tags"].v[i].v["Value"].v) :
             i \in { j \in 1..Len(self.instance["Tags"].v) :
                       self.instance["Tags"].v[j].v["Key"].v # s_Name } }
    ELSE {}

\* C7: tag AND-of-subexpressions.  With the instance_tags value a single
\* string, a compute record matches if and only if each comma-separated
\* sub-expression, lower-cased, is a substring of the lower-cased "key=value"
\* form of some tag of the record other than Name.
C7_TagSubexpressions ==
    (Matched /\ resource = "ec2" /\ lastMatch.field = "instance_tags" /\ lastMatch.value.t = "str")
    => (MatchHit <=>
          LET subs == Split(lastMatch.value.v, ",") IN
          \A i \in 1..Len(subs) :
              \E form \in TagForms(Record(resource, lastMatch.id)) :
                  contains(lower(subs[i]), lower(form)))

\* C8: total lookup.  record[field] returns for every record and every field
\* name, derived or raw, present or missing; it never raises.
C8_TotalLookup ==
    lastGet.op = "getitem" => lastGet.exc = "none"

\* the compute record id is named name and is in state state
NamedInState(id, name, state) ==
    LET raw == Ec2Records[id].instance IN
    /\ "Tags" \in DOMAIN raw
    /\ \E i \in 1..Len(raw["Tags"].v) :
          raw["Tags"].v[i].v["Key"].v = s_Name /\ raw["Tags"].v[i].v["Value"].v = name
    /\ "State" \in DOMAIN raw
    /\ "Name" \in DOMAIN raw["State"].v
    /\ raw["State"].v["Name"].v = state

\* the collection of the scenario: "web-1" running, then "web-2" stopped
Scenario(c) ==
    /\ resource = "ec2"
    /\ Len(c) = 2
    /\ NamedInState(c[1], s_web1, s_running)
    /\ NamedInState(c[2], s_web2, s_stopped)

\* C9: end-to-end scenario.  On the collection <<"web-1" running, "web-2"
\* stopped>>, filter({instance_state: "running"}) leaves exactly the first
\* record, filter({instance_name: "web"}) leaves both in order, and
\* filter({instance_name: "web", instance_state: "stopped"}) leaves exactly
\* the second, in either order of the two keys.
C9_Scenario ==
    (lastFilter.op = "filter" /\ Scenario(lastFilter.before)) =>
        /\ lastFilter.params = << <<"instance_state", Str(s_running)>> >>
              => (lastFilter.exc = "none" /\ instances = <<lastFilter.before[1]>>)
        /\ lastFilter.params = << <<"instance_name", Str(s_web)>> >>
              => (lastFilter.exc = "none" /\ instances = lastFilter.before)
        /\ lastFilter.params \in
              { << <<"instance_name", Str(s_web)>>, <<"instance_state", Str(s_stopped)>> >>,
                << <<"instance_state", Str(s_stopped)>>, <<"instance_name", Str(s_web)>> >> }
              => (lastFilter.exc = "none" /\ instances = <<lastFilter.before[2]>>)

C9_Witness ==
    /\ Filtered
    /\ Scenario(lastFilter.before)
    /\ lastFilter.params = << <<"instance_state", Str(s_stopped)>>, <<"instance_name", Str(s_web)>> >>
    /\ instances = <<lastFilter.before[2]>>

\* the names record[item] derives instead of reading the raw field
DerivedItems == {"aws_account", "Name", "instance_name", "instance_placement"}

\* the attributes the matcher of the resource type recognizes
Recognized(res) == IF res = "ec2" THEN match_methods ELSE {"instance_dns_name"}

\* C10: generic fallback.  For an attribute the matcher does not recognize,
\* match() is the case-insensitive substring test of the value against the
\* raw field of that name, and it is no-match without raising when the field
\* is absent or not a string.
C10_GenericFallback ==
    (Matched /\ lastMatch.field \notin Recognized(resource) /\ lastMatch.field \notin DerivedItems)
    => LET raw == Record(resource, lastMatch.id).instance IN
       /\ lastMatch.exc = "none"
       /\ MatchHit <=> (/\ lastMatch.field \in DOMAIN raw
                        /\ raw[lastMatch.field].t = "str"
                        /\ contains(lower(lastMatch.value.v), lower(raw[lastMatch.field].v)))

\* the running-state name of a compute record that has one
HasState(id) ==
    LET raw == Ec2Records[id].instance IN
    /\ "State" \in DOMAIN raw
    /\ raw["State"].t = "dict"
    /\ "Name" \in DOMAIN raw["State"].v

StateName(id) == Ec2Records[id].instance["State"].v["Name"].v

\* C15: state matching is exact equality.  For a compute record that has a
\* state, match('instance_state', v) returns a true value if and only if v
\* equals the running-state name; a proper substring of it, and the name in
\* another case, do not match.
C15_StateExact ==
    (Matched /\ resource = "ec2" /\ lastMatch.field = "instance_state" /\ HasState(lastMatch.id))
    => /\ lastMatch.exc = "none"
       /\ MatchHit <=> lastMatch.value.v = StateName(lastMatch.id)

C15_Witness ==
    /\ Matched
    /\ resource = "ec2"
    /\ lastMatch.field = "instance_state"
    /\ lastMatch.value.v = s_run
    /\ HasState(lastMatch.id)
    /\ StateName(lastMatch.id) = s_running
    /\ ~MatchHit

\* the "group-name - group-id" strings of the security groups of a compute
\* record
GroupForms(self) ==
    IF "SecurityGroups" \in DOMAIN self.instance
    THEN { self.instance["SecurityGroups"].v[i].v["GroupName"].v \o <<" ", "-", " ">> \o
           self.instance["SecurityGroups"].v[i].v["GroupId"].v :
             i \in 1..Len(self.instance["SecurityGroups"].v) }
    ELSE {}

\* C16: security-group matching is an all-of predicate.  With a list of
\* tokens, match('instance_sg', tokens) returns a true value if and only if
\* every token, lower-cased, is a substring of the lower-cased
\* "group-name - group-id" string of some security group of the record; also
\* when a token occurs more than once in the list.
C16_SecurityGroupsAllOf ==
    (Matched /\ resource = "ec2" /\ lastMatch.field = "instance_sg" /\ lastMatch.value.t = "list")
    => /\ lastMatch.exc = "none"
       /\ MatchHit <=>
             \A i \in 1..Len(lastMatch.value.v) :
                 \E form \in GroupForms(Record(resource, lastMatch.id)) :
                     contains(lower(lastMatch.value.v[i].v), lower(form))

\* the derived name of a record: the value of the first tag whose key is
\* "Name" (compute), LoadBalancerName (load balancer)
NameTags(raw) ==
    IF "Tags" \in DOMAIN raw
    THEN { i \in 1..Len(raw["Tags"].v) : raw["Tags"].v[i].v["Key"].v = s_Name }
    ELSE {}

HasName(res, id) ==
    IF res = "ec2" THEN NameTags(Record(res, id).instance) # {}
    ELSE "LoadBalancerName" \in DOMAIN Record(res, id).instance

DerivedName(res, id) ==
    LET raw == Record(res, id).instance IN
    IF res = "ec2"
    THEN raw["Tags"].v[CHOOSE i \in NameTags(raw) : \A j \in NameTags(raw) : i <= j].v["Value"].v
    ELSE raw["LoadBalancerName"].v

\* C17: name matching.  match('instance_name', v) on a record that has a
\* derived name returns a true value if and only if v, lower-cased, is a
\* substring of the lower-cased name ("WEB" matches "web-server-01", "zzz"
\* does not); on a record without a name it never gives a match.
C17_NameSubstring ==
    (Matched /\ lastMatch.field = "instance_name" /\ lastMatch.value.t = "str")
    => IF HasName(resource, lastMatch.id)
       THEN /\ lastMatch.exc = "none"
            /\ MatchHit <=> contains(lower(lastMatch.value.v),
                                      lower(DerivedName(resource, lastMatch.id)))
       ELSE ~MatchHit

C17_Witness ==
    /\ Matched
    /\ resource = "ec2"
    /\ lastMatch.field = "instance_name"
    /\ lastMatch.value.v = s_WEB
    /\ HasName(resource, lastMatch.id)
    /\ lower(DerivedName(resource, lastMatch.id)) = lower(s_WebServer01)
    /\ MatchHit

\* the last call was a direct get_field_printable_value
Rendered == lastRender.op = "render"

\* the entries of a rendered list: the parts of s between separators
Entries(s, sep) ==
    IF s = <<>> THEN {} ELSE { Split(s, sep)[i] : i \in 1..Len(Split(s, sep)) }

\* C11: tag rendering.  The table-mode printable value of the Tags of a
\* compute record has exactly one "key=value" entry for every tag whose key
\* is not "Name" and none for the Name tag, and the JSON-mode value of the
\* same tags has the same entries.
C11_TagRendering ==
    (/\ Rendered
     /\ resource = "ec2"
     /\ lastRender.field_name = "Tags"
     /\ lastRender.print_format = "table"
     /\ "Tags" \in DOMAIN Record(resource, lastRender.id).instance)
    => /\ lastRender.exc = "none"
       /\ lastRender.ret.t = "str"
       /\ Entries(lastRender.ret.v, "\n") = TagForms(Record(resource, lastRender.id))
       /\ LET json == get_field_printable_value(resource, lastRender.id, "Tags", "json")
          IN /\ json.exc = "none"
             /\ json.val.t = "str"
             /\ Entries(json.val.v, ",") = Entries(lastRender.ret.v, "\n")

\* the timestamp field of the records of a resource type
TimestampField(res) == IF res = "ec2" THEN "LaunchTime" ELSE "CreatedTime"

\* C18: timestamp rendering.  get_field_printable_value on the timestamp
\* field returns, in table mode, the value record[field] gives, unchanged and
\* whether or not that value can be serialized; in JSON mode it returns the
\* ISO-8601 string of a date or time value.
C18_TimestampRendering ==
    (Rendered /\ lastRender.field_name = TimestampField(resource))
    => LET raw == getitem(resource, lastRender.id, lastRender.field_name).val IN
       /\ lastRender.print_format = "table"
             => (lastRender.exc = "none" /\ lastRender.ret = raw)
       /\ (lastRender.print_format = "json" /\ raw.t \in {"datetime", "date"})
             => (lastRender.exc = "none" /\ lastRender.ret = json_serial(raw).val)

(***************************************************************************)
(* Properties of a run of main()                                           *)
(***************************************************************************)
\* the run has made the step
Stepped(step) == \E i \in DOMAIN steps : steps[i] = step

\* the run has printed the message
Printed(message) == \E i \in DOMAIN output : output[i] = message

\* the run is over
Exited == pc = "exited"

\* C14: configuration failure.  When the configuration file is missing, the
\* run ends in parse_config() with the IOError that carries the remediation
\* message and a non-zero exit status: parse_config is the only step made,
\* the command line is not parsed, nothing is fetched, filter() is not
\* called and nothing but the message is printed.
C14_ConfigurationFailure ==
    (Configs[config].file = "missing" /\ pc # "parse_config") =>
        /\ Exited
        /\ uncaught = "IOError"
        /\ exit_status # 0
        /\ output = <<msg_configure>>
        /\ steps = <<"parse_config">>
        /\ args = NoArgs
        /\ fetches = <<>>
        /\ fetched = <<>>
        /\ lastFilter = NoFilter
        /\ displayed = <<>>

\* a run with a missing configuration file has ended
C14_Witness == Configs[config].file = "missing" /\ Exited /\ Stepped("parse_config")

\* the command line asks for a resource that is neither ec2 nor elb: it
\* names another sub-command or none, and does not ask for the version
UnsupportedResource ==
    /\ ~CommandLines[argv].version
    /\ CommandLines[argv].resource \notin {"ec2", "elb"}

\* C12: unsupported resource.  In a run whose command line asks for a
\* resource that is neither ec2 nor elb, no fetch, no filter() and no
\* print_instances() is ever made and nothing is displayed; when the run
\* is over, the resource has been reported, by the parser's usage error or
\* by the "unsupported AWS resource" line, and the exit status is not 0.
C12_UnsupportedResource ==
    (UnsupportedResource /\ Stepped("parse_commandline_args")) =>
        /\ fetches = <<>>
        /\ fetched = <<>>
        /\ ~Stepped("filter")
        /\ ~Stepped("print_instances")
        /\ lastFilter = NoFilter
        /\ displayed = <<>>
        /\ ~Printed("table")
        /\ pc \in {"build", "construct", "exited"}
        /\ pc = "construct" => (resource = "unbound" /\ Printed(msg_unsupported))
        /\ Exited => /\ exit_status # 0
                     /\ Printed("usage") \/ Printed(msg_unsupported)

\* a run without a sub-command that the parser let through has printed the
\* "unsupported AWS resource" line and has ended
C12_Witness ==
    /\ UnsupportedResource
    /\ Exited
    /\ Printed(msg_unsupported)
    /\ uncaught = "UnboundLocalError"

\* the last fetch of the run failed with one of the two credential errors
CredentialFailure ==
    /\ fetches # <<>>
    /\ fetches[Len(fetches)].exc \in {"ProfileNotFound", "NoCredentialsError"}

\* C13: credential failure.  When the fetch of an (account, region) pair
\* fails with ProfileNotFound or NoCredentialsError, the run is over: the
\* last thing printed is the guidance message, the exit status is 1, no
\* exception is left uncaught, neither filter() nor print_instances() has
\* been called, and no record is displayed, whatever was fetched before.
C13_CredentialFailure ==
    CredentialFailure =>
        /\ Exited
        /\ exit_status = 1
        /\ uncaught = "none"
        /\ output # <<>> /\ output[Len(output)] = msg_credentials
        /\ ~Stepped("filter")
        /\ ~Stepped("print_instances")
        /\ lastFilter = NoFilter
        /\ instances = <<>>
        /\ displayed = <<>>
        /\ ~Printed("table")

\* a fetch failed with NoCredentialsError after records of an earlier pair
\* had been fetched
C13_Witness ==
    /\ CredentialFailure
    /\ fetches[Len(fetches)].exc = "NoCredentialsError"
    /\ fetched # <<>>

\* the command-line option behind each key of an ec2 filter specification
Ec2Options ==
    [instance_name |-> "name", instance_id |-> "id", instance_tags |-> "tags",
     instance_ip |-> "ip", instance_state |-> "state"]

\* C19: default state filter.  The specification an ec2 run hands to
\* filter() has exactly one item with the key instance_state, whose value
\* is the --state argument, "running" when there is none; so it is not
\* empty.  Every other item has one of the keys instance_name,
\* instance_id, instance_tags, instance_ip, its option was given on the
\* command line, and its value is the option's.
C19_DefaultStateFilter ==
    (lastFilter.op = "filter" /\ resource = "SearchEc2Instances") =>
        LET cl == CommandLines[argv]
            params == lastFilter.params
            state == IF cl.state.t = "none" THEN s_running ELSE cl.state.v
        IN /\ Len(params) > 0
           /\ \E i \in DOMAIN params :
                /\ params[i][1] = "instance_state"
                /\ params[i][2].t = "str" /\ params[i][2].v = state
           /\ \A i, j \in DOMAIN params : params[i][1] = params[j][1] => i = j
           /\ \A i \in DOMAIN params :
                /\ params[i][1] \in DOMAIN Ec2Options
                /\ params[i][1] # "instance_state" =>
                      /\ cl[Ec2Options[params[i][1]]].t = "str"
                      /\ params[i][2] = cl[Ec2Options[params[i][1]]]

\* filter() was called in an ec2 run without --state, with another item
\* beside instance_state
C19_Witness ==
    /\ lastFilter.op = "filter"
    /\ resource = "SearchEc2Instances"
    /\ CommandLines[argv].state.t = "none"
    /\ Len(lastFilter.params) >= 2

\* the position of an element in a sequence without repetitions
Position(seq, elem) == CHOOSE k \in DOMAIN seq : seq[k] = elem

\* the records of the fetches made, one fetch after the other
RECURSIVE Concatenated(_)
Concatenated(fs) ==
    IF Len(fs) = 0 THEN <<>>
    ELSE Concatenated(SubSeq(fs, 1, Len(fs) - 1)) \o fs[Len(fs)].records

\* C20: fetch order.  The fetches of a run go through the (account,
\* region) pairs of the account list and the region list one by one: a
\* later fetch is of a later account, or of the same account and a later
\* region.  The collection is the records of the fetches in that order,
\* each fetch's in the order the provider answered, so a record of an
\* account is never behind a record of an account that comes later in the
\* list.  When filter() is called every pair has been fetched, and the
\* collection handed to it is the whole of the fetched records.
C20_FetchOrder ==
    (resource \in SearchClasses) =>
        LET accounts == IF CommandLines[argv].account.t = "none" THEN Configs[config].aws_accounts
                        ELSE <<CommandLines[argv].account.v>>
            regions == IF CommandLines[argv].region.t = "none" THEN Configs[config].aws_regions
                       ELSE <<CommandLines[argv].region.v>>
            account_of(id) == Record(record_type(resource), id).aws_account.v
        IN /\ Len(fetches) <= Len(accounts) * Len(regions)
           /\ \A i \in DOMAIN fetches :
                /\ \E k \in DOMAIN accounts : accounts[k] = fetches[i].account
                /\ \E k \in DOMAIN regions : regions[k] = fetches[i].region
                /\ \A n \in DOMAIN fetches[i].records :
                      account_of(fetches[i].records[n]) = fetches[i].account
           /\ \A i, j \in DOMAIN fetches :
                i < j =>
                   \/ Position(accounts, fetches[i].account) < Position(accounts, fetches[j].account)
                   \/ /\ fetches[i].account = fetches[j].account
                      /\ Position(regions, fetches[i].region) < Position(regions, fetches[j].region)
           /\ fetched = Concatenated(fetches)
           /\ \A m, n \in DOMAIN fetched :
                m < n => Position(accounts, account_of(fetched[m])) <= Position(accounts, account_of(fetched[n]))
           /\ Stepped("filter") =>
                /\ Len(fetches) = Len(accounts) * Len(regions)
                /\ \A i \in DOMAIN fetches : fetches[i].exc = "none"
                /\ lastFilter.before = fetched

\* filter() was called on a collection with records of two accounts,
\* fetched from two accounts and two regions
C20_Witness ==
    /\ Stepped("filter")
    /\ Len(fetches) = 4
    /\ \E m, n \in DOMAIN fetched :
         Record(record_type(resource), fetched[m]).aws_account # Record(record_type(resource), fetched[n]).aws_account
    /\ fetches[2].records # <<>>

\* C22: _match_tags with a list.  With a list of tag expressions,
\* match('instance_tags', expressions) returns a true value if and only if
\* every expression, lower-cased, is a substring of the lower-cased
\* "key=value" form of some tag of the record other than Name; also when an
\* expression occurs more than once in the list.
C22_MatchTagsList ==
    (Matched /\ resource = "ec2" /\ lastMatch.field = "instance_tags" /\ lastMatch.value.t = "list")
    => (MatchHit <=>
          \A i \in 1..Len(lastMatch.value.v) :
              \E form \in TagForms(Record(resource, lastMatch.id)) :
                  contains(lower(lastMatch.value.v[i].v), lower(form)))

Nth(S, k) == CHOOSE n \in S : Cardinality({ m \in S : m <= n }) = k

\* the positions, in a field catalog, of the fields that are printed
PrintedColumns(catalog, verbose) ==
    { k \in DOMAIN catalog : verbose \/ ~catalog[k].verbose_display }

\* the names a field catalog gives the printed columns, in catalog order
ColumnsOf(catalog, verbose, key) ==
    [j \in 1..Cardinality(PrintedColumns(catalog, verbose)) |->
        IF key = "printable_name" THEN catalog[Nth(PrintedColumns(catalog, verbose), j)].printable_name
        ELSE catalog[Nth(PrintedColumns(catalog, verbose), j)].name]

\* the raw data of the record has what the cells of its row subscript
HasPrintableData(cls, self) ==
    IF cls = "SearchEc2Instances"
    THEN /\ "Placement" \in DOMAIN self.instance
         /\ "AvailabilityZone" \in DOMAIN self.instance.Placement.v
    ELSE {"LoadBalancerName", "DNSName", "Instances", "CreatedTime"} \subseteq DOMAIN self.instance

\* C21: table output.  The table print_instances() prints has a header row
\* that is the printable names of the catalog's fields, in catalog order:
\* all of them when verbose, those that are not verbose-only otherwise.
\* After it comes one row per record of the collection, in collection
\* order, whose cells are the printable values of that record for the
\* printed fields; an empty collection gives the header alone.  A run that
\* ends without a table has raised, which it does not do for records that
\* have their data unless the table library refuses a verbose cell that is
\* not a string.  The record classes of instances.py select and order the
\* names and the attributes of their catalogs in the same way.
C21_TableOutput ==
    /\ \A instance_fields \in {Ec2Instance_instance_fields, ElbInstance_instance_fields},
          verbose \in BOOLEAN :
          /\ AWSInstance_get_printable_attribute_names(instance_fields, verbose)
                = ColumnsOf(instance_fields, verbose, "printable_name")
          /\ AWSInstance_get_attributes(instance_fields, verbose)
                = ColumnsOf(instance_fields, verbose, "name")
    /\ (Exited /\ Stepped("print_instances")) =>
          LET catalog == search_display_fields(resource)
              names == ColumnsOf(catalog, args.verbose, "name")
          IN /\ Printed("table") =>
                   /\ table_data.header = ColumnsOf(catalog, args.verbose, "printable_name")
                   /\ Len(table_data.rows) = Len(instances)
                   /\ \A i \in 1..Len(instances) :
                         /\ Len(table_data.rows[i]) = Len(names)
                         /\ \A j \in 1..Len(names) :
                               Return(table_data.rows[i][j])
                                  = search_get_field_printable_value(
                                        resource, Record(record_type(resource), instances[i]), names[j])
                   /\ instances = <<>> => table_data.rows = <<>>
             /\ ~Printed("table") => table_data = NoTable /\ uncaught # "none"
             /\ (\A i \in 1..Len(instances) :
                     HasPrintableData(resource, Record(record_type(resource), instances[i])))
                   => \/ Printed("table")
                      \/ args.verbose /\ instances # <<>> /\ uncaught = "AttributeError"

\* a filter() dropped a record and the table of the surviving records has
\* been printed, without the verbose-only columns
C21_Witness ==
    /\ Exited
    /\ Printed("table")
    /\ Filtered
    /\ 0 < Len(instances)
    /\ Len(instances) < Len(fetched)
    /\ Len(table_data.rows) = Len(instances)
    /\ ~args.verbose
    /\ Len(table_data.header) < Len(search_display_fields(resource))

====
